---- MODULE Spec2Model ----
(***************************************************************************)
(* Ticket lifecycle engine of ticket-flow: the Store (tickets, events,     *)
(* checkpoints, approvals), the Broker queue with its dead-letter          *)
(* destination, the HTTP ingest handler, the worker (TicketProcessor and   *)
(* process_message) and the approval decision handler.  Every Store or     *)
(* Broker call is one atomic step; handlers interleave between calls.      *)
(***************************************************************************)
EXTENDS Naturals, Integers, Sequences, FiniteSets, Bags, TLC

\* ------------------------------------------------------------------ bounds
\* Worker processes that may die (and restart) in one behaviour.
MaxCrashes == 1
\* Jumps of the wall clock, each of TickSeconds.
MaxTicks == 1
\* Seconds one jump of the clock adds.
TickSeconds == 300
\* Auto-approve tool calls the LLM proposes for one ticket.
MaxToolCalls == 1
\* Workflow nodes that raise in one behaviour.
MaxFailures == 2
\* Envelopes the broker hands to consumers in one behaviour.
MaxDeliveries == 4
\* Auto-approve tool calls the LLM proposes for one ticket when it never stops
\* on its own.
MaxLoopToolCalls == 9
\* Highest version of a stored row on which update is called.
MaxVersion == 2

\* ------------------------------------------------------- program constants
max_retries == 3
stale_processing_threshold_seconds == 300

NULL == "None"
NoTime == 0 - 1
\* expected_version=None
NoVersion == 0 - 1

Workers == {"worker-1", "worker-2"}
Clients == {"c1", "c2"}
Deciders == {"d1", "d2"}
\* Handlers of one kind are interchangeable; work goes to the first idle one.
HandlerOrder == <<"worker-1", "worker-2", "c1", "c2", "d1", "d2">>
Rank(h) == CHOOSE i \in 1..Len(HandlerOrder) : HandlerOrder[i] = h

\* TicketStatus
PENDING == "pending"
PROCESSING == "processing"
AWAITING_APPROVAL == "awaiting_approval"
COMPLETED == "completed"
FAILED_PERMANENT == "failed_permanent"
TicketStatus == {PENDING, PROCESSING, AWAITING_APPROVAL, COMPLETED, FAILED_PERMANENT}

\* ApprovalStatus
AP_PENDING == "pending"
AP_APPROVED == "approved"
AP_REJECTED == "rejected"

\* EventType
EV_CREATED == "created"
EV_STATUS_CHANGE == "status_change"
EV_STEP_COMPLETE == "step_complete"
EV_ERROR == "error"
EV_RETRY == "retry"

\* Tool registry
AUTO_APPROVE_TOOLS == {"check_order_status"}
REQUIRES_APPROVAL_TOOLS == {"process_refund"}

requires_approval(tool_name) == tool_name \in REQUIRES_APPROVAL_TOOLS

\* ----------------------------------------------------------------- dicts
\* A Python dict is a function on its keys; Optional[x] is <<>> or <<x>>.
None == <<>>
Some(x) == <<x>>
IsNone(o) == o = <<>>

EmptyDict == [k \in {} |-> NULL]
DictSet(d, k, v) == [x \in (DOMAIN d) \cup {k} |-> IF x = k THEN v ELSE d[x]]
DictGet(d, k, default) == IF k \in DOMAIN d THEN d[k] ELSE default
\* {**a, **b}
DictMerge(a, b) == [x \in (DOMAIN a) \cup (DOMAIN b) |-> IF x \in DOMAIN b THEN b[x] ELSE a[x]]

\* -------------------------------------------------------------- identity
\* The request bodies POSTed to /tickets.
RefundRequest == [customer_id |-> "cust_john_doe", subject |-> "refund", body |-> "ord_12345"]
OrderQuestion == [customer_id |-> "cust_john_doe", subject |-> "refund", body |-> "ord_67890"]
Payloads == {RefundRequest, OrderQuestion}

\* content = f"{customer_id}:{subject}:{body}"; sha256 and uuid5 are taken to be
\* injective on the content, so the content stands for the UUID.
generate_ticket_id(customer_id, subject, body) == customer_id \o ":" \o subject \o ":" \o body

TicketIds == {generate_ticket_id(p.customer_id, p.subject, p.body) : p \in Payloads}

VARIABLES
    tickets,      \* table tickets: ticket id -> row (domain = the ids present)
    events,       \* table ticket_events: ticket id -> the bag of its rows
    checkpoints,  \* table workflow_checkpoints: ticket id -> row (domain = ids present)
    approvals,    \* table approval_requests: sequence of rows, id = position
    queue,        \* main queue, head first
    dlq,          \* dead-letter queue
    now,          \* wall clock, seconds
    wk,           \* worker -> position in process_message / process and its locals
    api,          \* client -> position in create_ticket and its locals
    dec,          \* decider -> position in decide_approval and its locals
    crashes,      \* worker deaths so far
    toolExec,     \* approval id -> executions of the gated tool (external effect)
    ckptLog,      \* ticket id -> steps for which a checkpoint was ever upserted
    scenario,     \* the deployment and the load of this behaviour (fixed at start)
    failures,     \* workflow nodes that raised so far
    deliveries,   \* envelopes handed to consumers so far
    consumer      \* worker -> its QueueConsumer: the stop flag and whether consume() runs

vars == <<tickets, events, checkpoints, approvals, queue, dlq, now, wk, api, dec,
          crashes, toolExec, ckptLog, scenario, failures, deliveries, consumer>>

\* settings.use_agent_workflow
use_agent == scenario.use_agent

\* ---------------------------------------------------------------- Store
\* The tickets table bumps version on every UPDATE of a row (the schema's
\* trigger; processor.py reloads the ticket because "heartbeats increment it").
VersionTrigger(row) == [row EXCEPT !.version = row.version + 1]

\* TicketRepository.create: a new row at the column defaults.
NewTicket(id, customer_id, subject, body) ==
    [id |-> id, customer_id |-> customer_id, subject |-> subject, body |-> body,
     status |-> PENDING, result |-> None, worker_id |-> NULL, attempt_count |-> 0,
     version |-> 1, created_at |-> now, started_at |-> NoTime,
     completed_at |-> NoTime, last_heartbeat |-> NoTime]

\* The update on a table whose version nothing bumps.
ApplyUpdateColumnsOnly(row, data) ==
    [k \in DOMAIN row |-> IF k \in DOMAIN data THEN data[k] ELSE row[k]]

\* TicketRepository.update: the columns named in data are overwritten.
ApplyUpdate(row, data) ==
    VersionTrigger([k \in DOMAIN row |-> IF k \in DOMAIN data THEN data[k] ELSE row[k]])

\* The WHERE clause of update: id matches, and version when one is expected.
UpdateMatches(id, expected_version) ==
    /\ id \in DOMAIN tickets
    /\ (expected_version # NoVersion => tickets[id].version = expected_version)

UpdateTicket(id, data) == [tickets EXCEPT ![id] = ApplyUpdate(tickets[id], data)]

\* The data of each named update.
AcquireData(worker_id) ==
    [status |-> PROCESSING, worker_id |-> worker_id, started_at |-> now, last_heartbeat |-> now]
CompletedData(result) == [status |-> COMPLETED, result |-> Some(result), completed_at |-> now]
AwaitingApprovalData(result) == [status |-> AWAITING_APPROVAL, result |-> Some(result)]
FailedPermanentData(error) ==
    [status |-> FAILED_PERMANENT, result |-> Some([error |-> error]), completed_at |-> now]
\* The attempt counter alone, the status left as it is.
IncrementAttemptDataKeepStatus(attempt_count) == [attempt_count |-> attempt_count + 1]

IncrementAttemptData(attempt_count) == [status |-> PENDING, attempt_count |-> attempt_count + 1]
HeartbeatData(worker_id) == [last_heartbeat |-> now, worker_id |-> worker_id]

\* TicketEventRepository.create and its log_* wrappers.
\* A row carries created_at (the column default), by which get_by_ticket_id orders.
Event(event_type, step_name, payload) ==
    [event_type |-> event_type, step_name |-> step_name, payload |-> payload,
     created_at |-> now]
\* An insert that replaces the rows of the ticket.
AppendEventReplacing(id, e) == [events EXCEPT ![id] = SetToBag({e})]

\* TicketEventRepository.create: one insert.
AppendEvent(id, e) == [events EXCEPT ![id] = @ (+) SetToBag({e})]
StatusChangeEvent(old_status, new_status) ==
    Event(EV_STATUS_CHANGE, NULL, [old_status |-> old_status, new_status |-> new_status])
StepCompleteEvent(step_name) == Event(EV_STEP_COMPLETE, step_name, EmptyDict)
ErrorEvent(error) == Event(EV_ERROR, NULL, [error |-> error])
RetryEvent(attempt, error) == Event(EV_RETRY, NULL, [attempt |-> attempt, error |-> error])


\* An upsert that stores nothing.
UpsertCheckpointDropped(id, state, current_step) == checkpoints

\* WorkflowCheckpointRepository.upsert / delete.
UpsertCheckpoint(id, state, current_step) ==
    [k \in (DOMAIN checkpoints) \cup {id} |->
        IF k = id THEN [state |-> state, current_step |-> current_step] ELSE checkpoints[k]]
DeleteCheckpoint(id) == [k \in (DOMAIN checkpoints) \ {id} |-> checkpoints[k]]

\* ApprovalRepository.create.
NewApproval(ticket_id, action_type, action_params) ==
    [id |-> Len(approvals) + 1, ticket_id |-> ticket_id, action_type |-> action_type,
     action_params |-> action_params, status |-> AP_PENDING,
     decided_at |-> NoTime, decided_by |-> NULL, decision_reason |-> NULL]

PendingApprovals(ticket_id) ==
    {i \in 1..Len(approvals) : approvals[i].ticket_id = ticket_id /\ approvals[i].status = AP_PENDING}

\* --------------------------------------------------------------- Broker
Envelope(ticket_id, attempt) == [ticket_id |-> ticket_id, attempt |-> attempt]
\* QueuePublisher.publish
Publish(q, ticket_id, attempt) == Append(q, Envelope(ticket_id, attempt))
\* A body that is not the JSON of a QueueMessage: the attempt key is missing.
MalformedBody == [ticket_id |-> "not-a-uuid"]
\* QueueMessage.from_bytes raises on a body without its keys.
FromBytesRaises(body) == ~({"ticket_id", "attempt"} \subseteq DOMAIN body)

\* ------------------------------------------------------- Workflow engine
\* A message of the agent's history: its class and, for an AIMessage, its tool calls.
Message(type, tool_calls) == [type |-> type, tool_calls |-> tool_calls]
ToolCall(name) == [name |-> name, args |-> "order_id=ord_12345", id |-> "call_1"]

\* What the LLM may answer in agent_node: a plain answer, a refund proposal,
\* or (while the ticket has room for one) an auto-approve tool call, alone or
\* followed by a refund proposal in the same response.
LLMResponses(state) ==
    {<<>>, <<ToolCall("process_refund")>>}
        \cup (IF Len(state["actions_taken"]) < scenario.tool_calls
              THEN {<<ToolCall(t)>> : t \in AUTO_APPROVE_TOOLS}
                       \cup {<<ToolCall(t), ToolCall("process_refund")>> :
                                 t \in AUTO_APPROVE_TOOLS}
              ELSE {})

\* TicketProcessor._create_initial_state
InitialState(ticket) ==
    IF use_agent
    THEN [ticket_id |-> ticket.id,
          messages |-> <<Message("SystemMessage", <<>>), Message("HumanMessage", <<>>)>>,
          final_response |-> NULL, actions_taken |-> <<>>, pending_approval |-> None,
          should_end |-> FALSE]
    ELSE [ticket_id |-> ticket.id]

\* The first tool call of the response that requires approval, as Optional.
RECURSIVE FirstGated(_)
FirstGated(tool_calls) ==
    IF tool_calls = <<>> THEN None
    ELSE IF requires_approval(Head(tool_calls).name) THEN Some(Head(tool_calls))
    ELSE FirstGated(Tail(tool_calls))

agent_node(state, response) ==
    LET gated == FirstGated(response) IN
    IF ~IsNone(gated)
    THEN [messages |-> <<Message("AIMessage", response)>>,
          pending_approval |-> Some([tool |-> gated[1].name, args |-> gated[1].args,
                                     tool_call_id |-> gated[1].id])]
    ELSE [messages |-> <<Message("AIMessage", response)>>]

LastMessage(state) == state["messages"][Len(state["messages"])]

\* Routing on the last message alone, with no look at pending_approval.
should_continue_ungated(state) ==
    IF LastMessage(state).type = "AIMessage" /\ LastMessage(state).tool_calls # <<>>
    THEN "tools"
    ELSE "finalize"

should_continue(state) ==
    IF ~IsNone(state["pending_approval"]) THEN "await_approval"
    ELSE IF LastMessage(state).type = "AIMessage" /\ LastMessage(state).tool_calls # <<>>
         THEN "tools"
    ELSE "finalize"

tools_node(state) ==
    LET calls == IF LastMessage(state).type = "AIMessage"
                 THEN LastMessage(state).tool_calls ELSE <<>> IN
    [messages |-> [i \in 1..Len(calls) |-> Message("ToolMessage", <<>>)],
     actions_taken |-> state["actions_taken"]
                       \o [i \in 1..Len(calls) |-> [tool |-> calls[i].name, args |-> calls[i].args]]]

AiAnswers(state) ==
    {i \in 1..Len(state["messages"]) :
        state["messages"][i].type = "AIMessage" /\ state["messages"][i].tool_calls = <<>>}

agent_finalize_node(state) ==
    IF AiAnswers(state) # {}
    THEN [final_response |-> "answer", should_end |-> TRUE]
    ELSE [final_response |-> "fallback", should_end |-> TRUE]

await_approval_node(state) == [final_response |-> "requires_approval", should_end |-> TRUE]

\* Legacy pipeline: the chain of create_workflow and what each node writes.
LegacySteps == <<"classify", "extract", "research", "draft", "review", "finalize">>
LegacyField ==
    [classify |-> "classification", extract |-> "entities", research |-> "research_results",
     draft |-> "draft_response", review |-> "review_notes", finalize |-> "final_response"]
\* A chain that leaves out every second node.
LegacyNextSkipping(node) ==
    LET i == CHOOSE j \in 1..Len(LegacySteps) : LegacySteps[j] = node IN
    IF i + 1 < Len(LegacySteps) THEN LegacySteps[i + 2] ELSE "END"
LegacyNext(node) ==
    LET i == CHOOSE j \in 1..Len(LegacySteps) : LegacySteps[j] = node IN
    IF i < Len(LegacySteps) THEN LegacySteps[i + 1] ELSE "END"
legacy_node(node) == DictSet([current_step |-> node], LegacyField[node], "value")

EntryPoint == IF use_agent THEN "agent" ELSE "classify"

\* The output of one node of the compiled graph.
NodeOutput(node, state, response) ==
    IF ~use_agent THEN legacy_node(node)
    ELSE IF node = "agent" THEN agent_node(state, response)
    ELSE IF node = "tools" THEN tools_node(state)
    ELSE IF node = "finalize" THEN agent_finalize_node(state)
    ELSE await_approval_node(state)

\* _execute_workflow's merge of a node's output into final_state.
MergeOutput(final_state, node_output) ==
    IF use_agent /\ "messages" \in DOMAIN node_output
    THEN DictSet(DictMerge(final_state, node_output), "messages",
                 DictGet(final_state, "messages", <<>>) \o node_output["messages"])
    ELSE DictMerge(final_state, node_output)

\* The node the graph runs after `node`, given the merged state.
NextNode(node, state) ==
    IF ~use_agent THEN LegacyNext(node)
    ELSE IF node = "agent" THEN should_continue(state)
    ELSE IF node = "tools" THEN "agent"
    ELSE "END"

\* _serialize_state_for_checkpoint: a message keeps its class name and content.
SerializeState(state) ==
    [k \in DOMAIN state |->
        IF k = "messages"
        THEN [i \in 1..Len(state[k]) |-> Message(state[k][i].type, <<>>)]
        ELSE state[k]]

\* TicketProcessor._extract_result
ExtractResult(final_state) ==
    IF use_agent
    THEN [final_response |-> DictGet(final_state, "final_response", NULL),
          actions_taken |-> DictGet(final_state, "actions_taken", <<>>),
          pending_approval |-> DictGet(final_state, "pending_approval", None)]
    ELSE [classification |-> DictGet(final_state, "classification", NULL),
          entities |-> DictGet(final_state, "entities", NULL),
          final_response |-> DictGet(final_state, "final_response", NULL),
          review_notes |-> DictGet(final_state, "review_notes", NULL)]

\* ------------------------------------------------------------ initial state
\* lease: the version of the row acquire_for_processing returned to this
\* worker (0 while it holds no lease); beats: its heartbeats under that lease
\* (both only observed, never used).
IdleWorker ==
    [pc |-> "idle", ticket_id |-> NULL, attempt |-> 0, version |-> 0, state |-> EmptyDict,
     node |-> NULL, step |-> NULL, result |-> EmptyDict,
     attempt_count |-> 0, error |-> NULL, lease |-> 0, beats |-> 0]
\* QueueConsumer.__init__ followed by consume(): _should_stop is False and the
\* loop runs.
RunningConsumer == [should_stop |-> FALSE, consuming |-> TRUE]
\* after: the requests that had been answered when this one arrived.
IdleClient ==
    [pc |-> "idle", request |-> EmptyDict, ticket_id |-> NULL, response |-> NULL, after |-> {}]
\* seen_status: the status the ticket had when the request arrived; prior: the
\* ticket's result as the handler read it (both only observed, never used).
IdleDecider ==
    [pc |-> "idle", approval_id |-> 0, approved |-> FALSE, reason |-> NULL,
     approval |-> EmptyDict, version |-> 0, result |-> EmptyDict,
     action_executed |-> FALSE, response |-> NULL,
     seen_status |-> NULL, prior |-> EmptyDict]

InitStore ==
    /\ tickets = [k \in {} |-> EmptyDict]
    /\ events = [k \in TicketIds |-> EmptyBag]
    /\ checkpoints = [k \in {} |-> EmptyDict]
    /\ approvals = <<>>
    /\ queue = <<>>
    /\ dlq = <<>>
    /\ now = 0
    /\ toolExec = <<>>
    /\ ckptLog = [k \in TicketIds |-> {}]

InitHandlers ==
    /\ wk = [w \in Workers |-> IdleWorker]
    /\ api = [c \in Clients |-> IdleClient]
    /\ dec = [d \in Deciders |-> IdleDecider]
    /\ crashes = 0
    /\ failures = 0
    /\ deliveries = 0
    /\ consumer = [w \in Workers |-> RunningConsumer]

\* Where process_message can be when the worker process dies.
WorkerSteps ==
    {"load", "acquire", "log_processing", "load_checkpoint", "step", "log_step", "heartbeat",
     "create_approval", "mark_awaiting", "log_awaiting", "mark_completed", "log_completed",
     "delete_checkpoint", "log_error", "reload_failed", "mark_failed", "log_failed",
     "increment_read", "increment_write", "log_retry", "publish", "ack", "nack_dlx",
     "nack_requeue"}

\* The deployments and loads explored: which handlers run (each client and
\* each decider sends one request) and how much the environment does (worker
\* deaths, clock jumps, tool calls the LLM proposes).
\* Two workers, a death between publish and ack, and a stale lease.
ScenarioLease ==
    [use_agent |-> TRUE, workers |-> Workers, clients |-> {"c1"}, deciders |-> {},
     payloads |-> {RefundRequest}, crashes |-> MaxCrashes, crash_at |-> {"ack"},
     store_fails |-> FALSE,
     ticks |-> MaxTicks, tool_calls |-> 0, failures |-> MaxFailures,
     deliveries |-> MaxDeliveries]
\* One worker that dies repeatedly, with an unreliable Store and LLM.
ScenarioRetry ==
    [use_agent |-> TRUE, workers |-> {"worker-1"}, clients |-> {"c1"}, deciders |-> {},
     payloads |-> {RefundRequest}, crashes |-> MaxCrashes + 1, crash_at |-> WorkerSteps,
     store_fails |-> TRUE,
     ticks |-> 0, tool_calls |-> 0, failures |-> MaxFailures + 2 * max_retries,
     deliveries |-> MaxDeliveries + 2 * max_retries]
\* One worker that dies once and finds its own lease stale.
ScenarioResume ==
    [use_agent |-> TRUE, workers |-> {"worker-1"}, clients |-> {"c1"}, deciders |-> {},
     payloads |-> {RefundRequest}, crashes |-> MaxCrashes, crash_at |-> WorkerSteps,
     store_fails |-> FALSE,
     ticks |-> MaxTicks, tool_calls |-> MaxToolCalls, failures |-> MaxFailures - 1,
     deliveries |-> MaxDeliveries - 1]
\* One worker and concurrent approval decisions.
ScenarioApproval ==
    [use_agent |-> TRUE, workers |-> {"worker-1"}, clients |-> {"c1"}, deciders |-> Deciders,
     payloads |-> {RefundRequest}, crashes |-> 0, crash_at |-> {}, store_fails |-> FALSE,
     ticks |-> 0, tool_calls |-> MaxToolCalls, failures |-> MaxFailures,
     deliveries |-> MaxDeliveries]
\* Concurrent ingestion.
ScenarioIngest ==
    [use_agent |-> TRUE, workers |-> {"worker-1"}, clients |-> Clients, deciders |-> {},
     payloads |-> Payloads, crashes |-> 0, crash_at |-> {}, store_fails |-> FALSE,
     ticks |-> 0, tool_calls |-> MaxToolCalls, failures |-> MaxFailures,
     deliveries |-> MaxDeliveries]
\* The legacy pipeline (use_agent_workflow = False), with one worker that dies
\* once and finds its own lease stale.
ScenarioLegacy ==
    [use_agent |-> FALSE, workers |-> {"worker-1"}, clients |-> {"c1"}, deciders |-> {},
     payloads |-> {RefundRequest}, crashes |-> MaxCrashes, crash_at |-> WorkerSteps,
     store_fails |-> FALSE,
     ticks |-> MaxTicks, tool_calls |-> 0, failures |-> MaxFailures - 1,
     deliveries |-> MaxDeliveries - 1]
Scenarios ==
    {ScenarioLease, ScenarioRetry, ScenarioResume, ScenarioApproval, ScenarioIngest,
     ScenarioLegacy}

Init == InitStore /\ InitHandlers /\ scenario \in Scenarios

\* ------------------------------------------------------------------ Ingest
\* create_ticket: each Store or Broker call is one step of the request.
\* create_ticket without the lookup of an existing ticket.
ExistingNever(ticket_id) == FALSE

\* existing = ticket_repo.get_by_id(ticket_id)
Existing(ticket_id) == ticket_id \in DOMAIN tickets

\* create_ticket with the publish moved before the insert.
PostTicketPublishingFirst(c) ==
    /\ api[c].pc = "idle"
    /\ \A b \in scenario.clients : Rank(b) < Rank(c) => api[b].pc # "idle"
    /\ \E p \in scenario.payloads :
        LET id == generate_ticket_id(p.customer_id, p.subject, p.body)
            answered == {b \in scenario.clients : api[b].pc = "done"} IN
        /\ api' = [api EXCEPT ![c] =
                   IF Existing(id)
                   THEN [pc |-> "done", request |-> p, ticket_id |-> id,
                         response |-> tickets[id].id, after |-> answered]
                   ELSE [pc |-> "insert", request |-> p, ticket_id |-> id,
                         response |-> NULL, after |-> answered]]
        /\ queue' = IF Existing(id) THEN queue ELSE Publish(queue, id, 1)
    /\ UNCHANGED <<tickets, events, checkpoints, approvals, dlq, now, wk, dec,
                   crashes, toolExec, ckptLog, scenario, failures, deliveries, consumer>>

\* A request arrives: the id is computed and looked up,
\* existing = ticket_repo.get_by_id(ticket_id); a duplicate answers with the row's id.
PostTicket(c) ==
    /\ api[c].pc = "idle"
    /\ \A b \in scenario.clients : Rank(b) < Rank(c) => api[b].pc # "idle"
    /\ \E p \in scenario.payloads :
        LET id == generate_ticket_id(p.customer_id, p.subject, p.body)
            answered == {b \in scenario.clients : api[b].pc = "done"} IN
        api' = [api EXCEPT ![c] =
                   IF Existing(id)
                   THEN [pc |-> "done", request |-> p, ticket_id |-> id,
                         response |-> tickets[id].id, after |-> answered]
                   ELSE [pc |-> "insert", request |-> p, ticket_id |-> id,
                         response |-> NULL, after |-> answered]]
    /\ UNCHANGED <<tickets, events, checkpoints, approvals, queue, dlq, now, wk, dec,
                   crashes, toolExec, ckptLog, scenario, failures, deliveries, consumer>>

\* ticket_repo.create: the insert fails on the primary key when the row exists,
\* and the request ends in an error.
IngestInsert(c) ==
    /\ api[c].pc = "insert"
    /\ LET id == api[c].ticket_id
           p == api[c].request IN
        IF id \in DOMAIN tickets
        THEN /\ api' = [api EXCEPT ![c].pc = "done", ![c].response = "error_500"]
             /\ UNCHANGED tickets
        ELSE /\ tickets' = [k \in (DOMAIN tickets) \cup {id} |->
                               IF k = id THEN NewTicket(id, p.customer_id, p.subject, p.body)
                               ELSE tickets[k]]
             /\ api' = [api EXCEPT ![c].pc = "event"]
    /\ UNCHANGED <<events, checkpoints, approvals, queue, dlq, now, wk, dec,
                   crashes, toolExec, ckptLog, scenario, failures, deliveries, consumer>>

IngestEvent(c) ==
    /\ api[c].pc = "event"
    /\ events' = AppendEvent(api[c].ticket_id,
                     Event(EV_CREATED, NULL, [customer_id |-> api[c].request.customer_id,
                                              subject |-> api[c].request.subject]))
    /\ api' = [api EXCEPT ![c].pc = "publish"]
    /\ UNCHANGED <<tickets, checkpoints, approvals, queue, dlq, now, wk, dec,
                   crashes, toolExec, ckptLog, scenario, failures, deliveries, consumer>>

IngestPublish(c) ==
    /\ api[c].pc = "publish"
    /\ queue' = Publish(queue, api[c].ticket_id, 1)
    /\ api' = [api EXCEPT ![c].pc = "done", ![c].response = api[c].ticket_id]
    /\ UNCHANGED <<tickets, events, checkpoints, approvals, dlq, now, wk, dec,
                   crashes, toolExec, ckptLog, scenario, failures, deliveries, consumer>>

\* ------------------------------------------------------------------ Worker
\* process() returned `completed` to process_message.
Return(r, completed) ==
    [IdleWorker EXCEPT !.ticket_id = r.ticket_id, !.attempt = r.attempt, !.error = r.error,
                       !.pc = IF completed THEN "ack"
                              ELSE IF r.attempt < max_retries THEN "publish"
                              ELSE "nack_dlx"]

\* An exception left process(): nack(requeue=True), whatever the attempt.
RaiseRequeueing(r) ==
    [IdleWorker EXCEPT !.ticket_id = r.ticket_id, !.attempt = r.attempt, !.error = r.error,
                       !.pc = "nack_requeue"]

\* An exception left process(): nack(requeue=message.attempt < max_retries).
Raise(r) ==
    [IdleWorker EXCEPT !.ticket_id = r.ticket_id, !.attempt = r.attempt, !.error = r.error,
                       !.pc = IF r.attempt < max_retries THEN "nack_requeue" ELSE "nack_dlx"]

\* An exception inside the try block of process(): the except branch runs.
Except(r, error) ==
    [IdleWorker EXCEPT !.ticket_id = r.ticket_id, !.attempt = r.attempt,
                       !.pc = "log_error", !.error = error, !.lease = r.lease]

\* age < stale_threshold for a heartbeat read from the row.
HeartbeatFresh(ticket) ==
    /\ ticket.last_heartbeat # NoTime
    /\ now - ticket.last_heartbeat < stale_processing_threshold_seconds

\* process_data_events has returned to `while not self._should_stop`: the loop
\* goes on unless the flag is set.
PollReturns(w) == [consumer EXCEPT ![w].consuming = ~consumer[w].should_stop]

\* handle_shutdown: the signal handler calls consumer.stop(), which sets the
\* flag; whatever the main thread was doing goes on when the handler returns.
HandleShutdown(w) ==
    /\ consumer[w].consuming /\ ~consumer[w].should_stop
    /\ consumer' = [consumer EXCEPT ![w].should_stop = TRUE]
    /\ UNCHANGED <<tickets, events, checkpoints, approvals, queue, dlq, now, wk, api, dec,
                   crashes, toolExec, ckptLog, scenario, failures, deliveries>>

\* process_data_events(time_limit=1) returns with nothing dispatched.
PollTimeout(w) ==
    /\ wk[w].pc = "idle"
    /\ consumer[w].consuming /\ consumer[w].should_stop
    /\ consumer' = PollReturns(w)
    /\ UNCHANGED <<tickets, events, checkpoints, approvals, queue, dlq, now, wk, api, dec,
                   crashes, toolExec, ckptLog, scenario, failures, deliveries>>

\* The broker hands the head of the queue to an idle consumer (prefetch 1).
Deliver(w) ==
    /\ wk[w].pc = "idle"
    /\ consumer[w].consuming
    /\ \A v \in scenario.workers : Rank(v) < Rank(w) => wk[v].pc # "idle"
    /\ queue # <<>>
    /\ ~FromBytesRaises(Head(queue))
    /\ deliveries < scenario.deliveries
    /\ deliveries' = deliveries + 1
    /\ wk' = [wk EXCEPT ![w] = [IdleWorker EXCEPT !.pc = "load",
                                   !.ticket_id = Head(queue).ticket_id,
                                   !.attempt = Head(queue).attempt]]
    /\ queue' = Tail(queue)
    /\ UNCHANGED <<tickets, events, checkpoints, approvals, dlq, now, api, dec,
                   crashes, toolExec, ckptLog, scenario, failures, consumer>>

\* on_message with the failed parse answered by nack(requeue=True).
RejectMalformedRequeueing(w) ==
    /\ wk[w].pc = "idle"
    /\ consumer[w].consuming
    /\ \A v \in scenario.workers : Rank(v) < Rank(w) => wk[v].pc # "idle"
    /\ queue # <<>>
    /\ FromBytesRaises(Head(queue))
    /\ deliveries < scenario.deliveries
    /\ deliveries' = deliveries + 1
    /\ UNCHANGED <<tickets, events, checkpoints, approvals, queue, dlq, now, wk, api, dec,
                   crashes, toolExec, ckptLog, scenario, failures>>
    /\ consumer' = PollReturns(w)

\* on_message: from_bytes raises on the body, the except branch calls
\* nack(requeue=False) and the broker dead-letters the body.
RejectMalformed(w) ==
    /\ wk[w].pc = "idle"
    /\ consumer[w].consuming
    /\ \A v \in scenario.workers : Rank(v) < Rank(w) => wk[v].pc # "idle"
    /\ queue # <<>>
    /\ FromBytesRaises(Head(queue))
    /\ deliveries < scenario.deliveries
    /\ deliveries' = deliveries + 1
    /\ queue' = Tail(queue)
    /\ dlq' = Append(dlq, Head(queue))
    /\ UNCHANGED <<tickets, events, checkpoints, approvals, now, wk, api, dec,
                   crashes, toolExec, ckptLog, scenario, failures>>
    /\ consumer' = PollReturns(w)

\* process(): load the ticket, the idempotency gate and the stale-lock check.
Load(w) ==
    /\ wk[w].pc = "load"
    /\ LET id == wk[w].ticket_id IN
        wk' = [wk EXCEPT ![w] =
            IF id \notin DOMAIN tickets THEN Return(@, TRUE)
            ELSE IF tickets[id].status \in {COMPLETED, FAILED_PERMANENT, AWAITING_APPROVAL}
                 THEN Return(@, TRUE)
            ELSE IF tickets[id].status = PROCESSING /\ HeartbeatFresh(tickets[id])
                 THEN Return(@, FALSE)
            ELSE [@ EXCEPT !.pc = "acquire", !.version = tickets[id].version]]
    /\ UNCHANGED <<tickets, events, checkpoints, approvals, queue, dlq, now, api, dec,
                   crashes, toolExec, ckptLog, scenario, failures, deliveries, consumer>>

\* The Store is unavailable to the first get_by_id: the exception leaves process().
LoadRaise(w) ==
    /\ wk[w].pc = "load"
    /\ scenario.store_fails
    /\ failures < scenario.failures
    /\ failures' = failures + 1
    /\ wk' = [wk EXCEPT ![w] = Raise(@)]
    /\ UNCHANGED <<tickets, events, checkpoints, approvals, queue, dlq, now, api, dec,
                   crashes, toolExec, ckptLog, scenario, deliveries, consumer>>

\* acquire_for_processing under the version read by Load.
Acquire(w) ==
    /\ wk[w].pc = "acquire"
    /\ LET id == wk[w].ticket_id IN
        IF UpdateMatches(id, wk[w].version)
        THEN /\ tickets' = UpdateTicket(id, AcquireData(w))
             /\ wk' = [wk EXCEPT ![w].pc = "log_processing",
                                   ![w].lease = wk[w].version + 1]
        ELSE /\ wk' = [wk EXCEPT ![w] = Return(@, FALSE)]
             /\ UNCHANGED tickets
    /\ UNCHANGED <<events, checkpoints, approvals, queue, dlq, now, api, dec,
                   crashes, toolExec, ckptLog, scenario, failures, deliveries, consumer>>

LogProcessing(w) ==
    /\ wk[w].pc = "log_processing"
    /\ events' = AppendEvent(wk[w].ticket_id, StatusChangeEvent(PENDING, PROCESSING))
    /\ wk' = [wk EXCEPT ![w].pc = "load_checkpoint"]
    /\ UNCHANGED <<tickets, checkpoints, approvals, queue, dlq, now, api, dec,
                   crashes, toolExec, ckptLog, scenario, failures, deliveries, consumer>>

\* The checkpoint's state, when there is one, is the initial state; the graph
\* is streamed from its entry point either way.
LoadCheckpoint(w) ==
    /\ wk[w].pc = "load_checkpoint"
    /\ LET id == wk[w].ticket_id IN
        wk' = [wk EXCEPT ![w].pc = "step", ![w].node = EntryPoint,
                  ![w].state = IF id \in DOMAIN checkpoints THEN checkpoints[id].state
                               ELSE InitialState(tickets[id])]
    /\ UNCHANGED <<tickets, events, checkpoints, approvals, queue, dlq, now, api, dec,
                   crashes, toolExec, ckptLog, scenario, failures, deliveries, consumer>>

\* workflow.stream yields the next node's output, which is merged into
\* final_state, and the merged state is upserted as the ticket's checkpoint.
SaveCheckpoint(w) ==
    /\ wk[w].pc = "step"
    /\ wk[w].node # "END"
    /\ \E response \in (IF use_agent /\ wk[w].node = "agent"
                        THEN LLMResponses(wk[w].state) ELSE {<<>>}) :
        LET out == NodeOutput(wk[w].node, wk[w].state, response)
            merged == MergeOutput(wk[w].state, out)
            current_step == DictGet(out, "current_step", wk[w].node) IN
        /\ checkpoints' = UpsertCheckpoint(wk[w].ticket_id, SerializeState(merged),
                                           current_step)
        /\ wk' = [wk EXCEPT ![w].pc = "log_step", ![w].state = merged,
                     ![w].step = wk[w].node,
                     ![w].node = NextNode(wk[w].node, merged)]
    /\ ckptLog' = [ckptLog EXCEPT ![wk[w].ticket_id] =
                      IF wk[w].ticket_id \in DOMAIN checkpoints'
                      THEN @ \cup {checkpoints'[wk[w].ticket_id].current_step} ELSE @]
    /\ UNCHANGED <<tickets, events, approvals, queue, dlq, now, api, dec,
                   crashes, toolExec, scenario, failures, deliveries, consumer>>

\* The nodes that invoke the LLM or a tool; the others only rearrange the state.
RaisingNodes ==
    IF use_agent THEN {"agent", "tools"} ELSE {"classify", "extract", "draft", "review"}

\* A node raises (LLM or tool failure).
StepRaise(w) ==
    /\ wk[w].pc = "step"
    /\ wk[w].node \in RaisingNodes
    /\ failures < scenario.failures
    /\ failures' = failures + 1
    /\ wk' = [wk EXCEPT ![w] = Except(@, "workflow_error")]
    /\ UNCHANGED <<tickets, events, checkpoints, approvals, queue, dlq, now, api, dec,
                   crashes, toolExec, ckptLog, scenario, deliveries, consumer>>

LogStepComplete(w) ==
    /\ wk[w].pc = "log_step"
    /\ events' = AppendEvent(wk[w].ticket_id, StepCompleteEvent(wk[w].step))
    /\ wk' = [wk EXCEPT ![w].pc = "heartbeat"]
    /\ UNCHANGED <<tickets, checkpoints, approvals, queue, dlq, now, api, dec,
                   crashes, toolExec, ckptLog, scenario, failures, deliveries, consumer>>

\* update_heartbeat: no version in the WHERE clause.
Heartbeat(w) ==
    /\ wk[w].pc = "heartbeat"
    /\ tickets' = IF UpdateMatches(wk[w].ticket_id, NoVersion)
                  THEN UpdateTicket(wk[w].ticket_id, HeartbeatData(w))
                  ELSE tickets
    /\ wk' = [wk EXCEPT ![w].pc = "step",
                 ![w].beats = IF UpdateMatches(wk[w].ticket_id, NoVersion) THEN @ + 1 ELSE @]
    /\ UNCHANGED <<events, checkpoints, approvals, queue, dlq, now, api, dec,
                   crashes, toolExec, ckptLog, scenario, failures, deliveries, consumer>>

\* The stream is exhausted, and the version acquire_for_processing returned is kept.
ReloadKeepingVersion(w) ==
    /\ wk[w].pc = "step"
    /\ wk[w].node = "END"
    /\ LET result == ExtractResult(wk[w].state) IN
        wk' = [wk EXCEPT ![w].result = result,
                  ![w].version = wk[w].lease,
                  ![w].pc = IF ~IsNone(DictGet(result, "pending_approval", None))
                            THEN "create_approval" ELSE "mark_completed"]
    /\ UNCHANGED <<tickets, events, checkpoints, approvals, queue, dlq, now, api, dec,
                   crashes, toolExec, ckptLog, scenario, failures, deliveries, consumer>>

\* The stream is exhausted: extract the result and reload the ticket for its version.
Reload(w) ==
    /\ wk[w].pc = "step"
    /\ wk[w].node = "END"
    /\ LET result == ExtractResult(wk[w].state) IN
        wk' = [wk EXCEPT ![w].result = result,
                  ![w].version = tickets[wk[w].ticket_id].version,
                  ![w].pc = IF ~IsNone(DictGet(result, "pending_approval", None))
                            THEN "create_approval" ELSE "mark_completed"]
    /\ UNCHANGED <<tickets, events, checkpoints, approvals, queue, dlq, now, api, dec,
                   crashes, toolExec, ckptLog, scenario, failures, deliveries, consumer>>

\* approval_repo.create for the proposed tool call.
CreateApproval(w) ==
    /\ wk[w].pc = "create_approval"
    /\ LET pending == wk[w].result["pending_approval"][1] IN
        approvals' = Append(approvals,
                        NewApproval(wk[w].ticket_id, pending.tool, pending.args))
    /\ toolExec' = Append(toolExec, 0)
    /\ wk' = [wk EXCEPT ![w].pc = "mark_awaiting"]
    /\ UNCHANGED <<tickets, events, checkpoints, queue, dlq, now, api, dec,
                   crashes, ckptLog, scenario, failures, deliveries, consumer>>

\* mark_awaiting_approval under the reloaded version; a mismatch raises inside the try.
MarkAwaitingApproval(w) ==
    /\ wk[w].pc = "mark_awaiting"
    /\ LET id == wk[w].ticket_id IN
        IF UpdateMatches(id, wk[w].version)
        THEN /\ tickets' = UpdateTicket(id, AwaitingApprovalData(wk[w].result))
             /\ wk' = [wk EXCEPT ![w].pc = "log_awaiting"]
        ELSE /\ wk' = [wk EXCEPT ![w] = Except(@, "version_mismatch")]
             /\ UNCHANGED tickets
    /\ UNCHANGED <<events, checkpoints, approvals, queue, dlq, now, api, dec,
                   crashes, toolExec, ckptLog, scenario, failures, deliveries, consumer>>

\* The checkpoint is kept; process() returns True.
LogAwaitingApproval(w) ==
    /\ wk[w].pc = "log_awaiting"
    /\ events' = AppendEvent(wk[w].ticket_id, StatusChangeEvent(PROCESSING, AWAITING_APPROVAL))
    /\ wk' = [wk EXCEPT ![w] = Return(@, TRUE)]
    /\ UNCHANGED <<tickets, checkpoints, approvals, queue, dlq, now, api, dec,
                   crashes, toolExec, ckptLog, scenario, failures, deliveries, consumer>>

\* mark_completed under the reloaded version.
MarkCompleted(w) ==
    /\ wk[w].pc = "mark_completed"
    /\ LET id == wk[w].ticket_id IN
        IF UpdateMatches(id, wk[w].version)
        THEN /\ tickets' = UpdateTicket(id, CompletedData(wk[w].result))
             /\ wk' = [wk EXCEPT ![w].pc = "log_completed"]
        ELSE /\ wk' = [wk EXCEPT ![w] = Except(@, "version_mismatch")]
             /\ UNCHANGED tickets
    /\ UNCHANGED <<events, checkpoints, approvals, queue, dlq, now, api, dec,
                   crashes, toolExec, ckptLog, scenario, failures, deliveries, consumer>>

LogCompleted(w) ==
    /\ wk[w].pc = "log_completed"
    /\ events' = AppendEvent(wk[w].ticket_id, StatusChangeEvent(PROCESSING, COMPLETED))
    /\ wk' = [wk EXCEPT ![w].pc = "delete_checkpoint"]
    /\ UNCHANGED <<tickets, checkpoints, approvals, queue, dlq, now, api, dec,
                   crashes, toolExec, ckptLog, scenario, failures, deliveries, consumer>>

CleanupCheckpoint(w) ==
    /\ wk[w].pc = "delete_checkpoint"
    /\ checkpoints' = DeleteCheckpoint(wk[w].ticket_id)
    /\ wk' = [wk EXCEPT ![w] = Return(@, TRUE)]
    /\ UNCHANGED <<tickets, events, approvals, queue, dlq, now, api, dec,
                   crashes, toolExec, ckptLog, scenario, failures, deliveries, consumer>>

\* except Exception: log the error, then choose on the envelope's attempt.
LogError(w) ==
    /\ wk[w].pc = "log_error"
    /\ events' = AppendEvent(wk[w].ticket_id, ErrorEvent(wk[w].error))
    /\ wk' = [wk EXCEPT ![w].pc = IF wk[w].attempt >= max_retries
                                  THEN "reload_failed" ELSE "increment_read"]
    /\ UNCHANGED <<tickets, checkpoints, approvals, queue, dlq, now, api, dec,
                   crashes, toolExec, ckptLog, scenario, failures, deliveries, consumer>>

\* Retries exhausted: reload for the current version.
ReloadFailed(w) ==
    /\ wk[w].pc = "reload_failed"
    /\ wk' = [wk EXCEPT ![w].pc = "mark_failed",
                 ![w].version = tickets[wk[w].ticket_id].version]
    /\ UNCHANGED <<tickets, events, checkpoints, approvals, queue, dlq, now, api, dec,
                   crashes, toolExec, ckptLog, scenario, failures, deliveries, consumer>>

\* mark_failed_permanent; a version mismatch here leaves process() as an exception.
MarkFailedPermanent(w) ==
    /\ wk[w].pc = "mark_failed"
    /\ LET id == wk[w].ticket_id IN
        IF UpdateMatches(id, wk[w].version)
        THEN /\ tickets' = UpdateTicket(id, FailedPermanentData(wk[w].error))
             /\ wk' = [wk EXCEPT ![w].pc = "log_failed"]
        ELSE /\ wk' = [wk EXCEPT ![w] = Raise(@)]
             /\ UNCHANGED tickets
    /\ UNCHANGED <<events, checkpoints, approvals, queue, dlq, now, api, dec,
                   crashes, toolExec, ckptLog, scenario, failures, deliveries, consumer>>

LogFailedPermanent(w) ==
    /\ wk[w].pc = "log_failed"
    /\ events' = AppendEvent(wk[w].ticket_id, StatusChangeEvent(PROCESSING, FAILED_PERMANENT))
    /\ wk' = [wk EXCEPT ![w] = Return(@, TRUE)]
    /\ UNCHANGED <<tickets, checkpoints, approvals, queue, dlq, now, api, dec,
                   crashes, toolExec, ckptLog, scenario, failures, deliveries, consumer>>

\* increment_attempt, first half: ticket = self.get_by_id(ticket_id).
IncrementAttemptRead(w) ==
    /\ wk[w].pc = "increment_read"
    /\ wk' = [wk EXCEPT ![w].pc = "increment_write",
                 ![w].attempt_count = tickets[wk[w].ticket_id].attempt_count]
    /\ UNCHANGED <<tickets, events, checkpoints, approvals, queue, dlq, now, api, dec,
                   crashes, toolExec, ckptLog, scenario, failures, deliveries, consumer>>

\* increment_attempt, second half: self.update(ticket_id, update), no expected version.
IncrementAttemptWrite(w) ==
    /\ wk[w].pc = "increment_write"
    /\ tickets' = UpdateTicket(wk[w].ticket_id, IncrementAttemptData(wk[w].attempt_count))
    /\ wk' = [wk EXCEPT ![w].pc = "log_retry"]
    /\ UNCHANGED <<events, checkpoints, approvals, queue, dlq, now, api, dec,
                   crashes, toolExec, ckptLog, scenario, failures, deliveries, consumer>>

LogRetry(w) ==
    /\ wk[w].pc = "log_retry"
    /\ events' = AppendEvent(wk[w].ticket_id, RetryEvent(wk[w].attempt, wk[w].error))
    /\ wk' = [wk EXCEPT ![w] = Return(@, FALSE)]
    /\ UNCHANGED <<tickets, checkpoints, approvals, queue, dlq, now, api, dec,
                   crashes, toolExec, ckptLog, scenario, failures, deliveries, consumer>>

\* process_message: publisher.publish(message.ticket_id, message.attempt + 1)
Republish(w) ==
    /\ wk[w].pc = "publish"
    /\ queue' = Publish(queue, wk[w].ticket_id, wk[w].attempt + 1)
    /\ wk' = [wk EXCEPT ![w].pc = "ack"]
    /\ UNCHANGED <<tickets, events, checkpoints, approvals, dlq, now, api, dec,
                   crashes, toolExec, ckptLog, scenario, failures, deliveries, consumer>>

Ack(w) ==
    /\ wk[w].pc = "ack"
    /\ wk' = [wk EXCEPT ![w] = IdleWorker]
    /\ UNCHANGED <<tickets, events, checkpoints, approvals, queue, dlq, now, api, dec,
                   crashes, toolExec, ckptLog, scenario, failures, deliveries>>
    /\ consumer' = PollReturns(w)

\* nack(requeue=False): the broker dead-letters the envelope.
NackDeadLetter(w) ==
    /\ wk[w].pc = "nack_dlx"
    /\ dlq' = Append(dlq, Envelope(wk[w].ticket_id, wk[w].attempt))
    /\ wk' = [wk EXCEPT ![w] = IdleWorker]
    /\ UNCHANGED <<tickets, events, checkpoints, approvals, queue, now, api, dec,
                   crashes, toolExec, ckptLog, scenario, failures, deliveries>>
    /\ consumer' = PollReturns(w)

\* nack(requeue=True): the broker puts the envelope back at the head.
NackRequeue(w) ==
    /\ wk[w].pc = "nack_requeue"
    /\ queue' = <<Envelope(wk[w].ticket_id, wk[w].attempt)>> \o queue
    /\ wk' = [wk EXCEPT ![w] = IdleWorker]
    /\ UNCHANGED <<tickets, events, checkpoints, approvals, dlq, now, api, dec,
                   crashes, toolExec, ckptLog, scenario, failures, deliveries>>
    /\ consumer' = PollReturns(w)

\* The worker process dies with an unsettled envelope: the broker requeues it,
\* and the process starts again idle.
Crash(w) ==
    /\ wk[w].pc \in scenario.crash_at
    /\ crashes < scenario.crashes
    /\ crashes' = crashes + 1
    /\ queue' = <<Envelope(wk[w].ticket_id, wk[w].attempt)>> \o queue
    /\ wk' = [wk EXCEPT ![w] = IdleWorker]
    /\ UNCHANGED <<tickets, events, checkpoints, approvals, dlq, now, api, dec,
                   toolExec, ckptLog, scenario, failures, deliveries>>
    /\ consumer' = [consumer EXCEPT ![w] = RunningConsumer]

\* Time passes.
Tick ==
    /\ now < scenario.ticks * TickSeconds
    /\ now' = now + TickSeconds
    /\ UNCHANGED <<tickets, events, checkpoints, approvals, queue, dlq, wk, api, dec,
                   crashes, toolExec, ckptLog, scenario, failures, deliveries, consumer>>

\* -------------------------------------------------------- Approval service
\* The bodies POSTed to /approvals/{id}/decide (decided_by is "admin").
DecideInputs ==
    {[approved |-> TRUE, reason |-> NULL], [approved |-> FALSE, reason |-> NULL],
     [approved |-> FALSE, reason |-> "Insufficient evidence"]}

\* A decision arrives; approval_repo.get_by_id, and a row that is no longer
\* pending answers 400.
DecideRequest(d) ==
    /\ dec[d].pc = "idle"
    /\ \A b \in scenario.deciders : Rank(b) < Rank(d) => dec[b].pc # "idle"
    /\ \E a \in 1..Len(approvals), input \in DecideInputs :
        dec' = [dec EXCEPT ![d] =
            IF approvals[a].status # AP_PENDING
            THEN [IdleDecider EXCEPT !.pc = "done", !.approval_id = a,
                     !.approved = input.approved, !.reason = input.reason,
                     !.response = "400",
                     !.seen_status = tickets[approvals[a].ticket_id].status]
            ELSE [IdleDecider EXCEPT !.pc = "decide", !.approval_id = a,
                     !.approved = input.approved, !.reason = input.reason,
                     !.approval = approvals[a],
                     !.seen_status = tickets[approvals[a].ticket_id].status]]
    /\ UNCHANGED <<tickets, events, checkpoints, approvals, queue, dlq, now, wk, api,
                   crashes, toolExec, ckptLog, scenario, failures, deliveries, consumer>>

\* ApprovalRepository.decide: UPDATE ... WHERE id = ? AND status = 'pending'.
DecidedRow(row, approved, decided_by, reason) ==
    [row EXCEPT !.status = IF approved THEN AP_APPROVED ELSE AP_REJECTED,
                !.decided_at = now, !.decided_by = decided_by, !.decision_reason = reason]

\* The update without .eq("status", "pending").
DecideMatchesUnguarded(approval_id) == approval_id \in 1..Len(approvals)

\* The rows the update of decide matches.
DecideMatches(approval_id) ==
    /\ approval_id \in 1..Len(approvals)
    /\ approvals[approval_id].status = AP_PENDING

DecideCas(d) ==
    /\ dec[d].pc = "decide"
    /\ LET a == dec[d].approval_id IN
        IF DecideMatches(a)
        THEN /\ approvals' = [approvals EXCEPT
                                 ![a] = DecidedRow(@, dec[d].approved, "admin", dec[d].reason)]
             /\ dec' = [dec EXCEPT ![d].pc = "log_decision"]
        ELSE /\ dec' = [dec EXCEPT ![d].pc = "done", ![d].response = "409"]
             /\ UNCHANGED approvals
    /\ UNCHANGED <<tickets, events, checkpoints, queue, dlq, now, wk, api,
                   crashes, toolExec, ckptLog, scenario, failures, deliveries, consumer>>

DecisionEvent(approval_id, approval, approved, decided_by, reason) ==
    Event(EV_STATUS_CHANGE, "approval_decision",
          [approval_id |-> approval_id, action_type |-> approval.action_type,
           approved |-> approved, decided_by |-> decided_by, reason |-> reason])

DecideLog(d) ==
    /\ dec[d].pc = "log_decision"
    /\ events' = AppendEvent(dec[d].approval.ticket_id,
                     DecisionEvent(dec[d].approval_id, dec[d].approval, dec[d].approved,
                                   "admin", dec[d].reason))
    /\ dec' = [dec EXCEPT ![d].pc = "get_ticket"]
    /\ UNCHANGED <<tickets, checkpoints, approvals, queue, dlq, now, wk, api,
                   crashes, toolExec, ckptLog, scenario, failures, deliveries, consumer>>

\* ticket = ticket_repo.get_by_id(approval.ticket_id); result = ticket.result or {}
DecideGetTicket(d) ==
    /\ dec[d].pc = "get_ticket"
    /\ LET ticket == tickets[dec[d].approval.ticket_id] IN
        dec' = [dec EXCEPT ![d].version = ticket.version,
                   ![d].result = IF IsNone(ticket.result) THEN EmptyDict ELSE ticket.result[1],
                   ![d].prior = IF IsNone(ticket.result) THEN EmptyDict ELSE ticket.result[1],
                   ![d].pc = IF dec[d].approved THEN "execute" ELSE "mark_rejected"]
    /\ UNCHANGED <<tickets, events, checkpoints, approvals, queue, dlq, now, wk, api,
                   crashes, toolExec, ckptLog, scenario, failures, deliveries, consumer>>

\* The result written after an approved and executed action.
ApprovedResult(result, approval) ==
    DictSet(DictSet(DictSet(result, "final_response", "approved and processed"),
                    "actions_taken",
                    DictGet(result, "actions_taken", <<>>)
                        \o <<[tool |-> approval.action_type, args |-> approval.action_params,
                              approved |-> TRUE]>>),
            "pending_approval", None)

\* The result written after a rejection.
RejectedResult(result, reason) ==
    DictSet(DictSet(result, "final_response",
                    "not approved. Reason: "
                        \o (IF reason = NULL THEN "No reason provided" ELSE reason)),
            "pending_approval", None)

\* _execute_approved_action returns (whatever success the tool reports); the
\* handler then prepares the result.
DecideExecute(d) ==
    /\ dec[d].pc = "execute"
    /\ toolExec' = IF dec[d].approval.action_type = "process_refund"
                   THEN [toolExec EXCEPT ![dec[d].approval_id] = @ + 1] ELSE toolExec
    /\ \E success \in BOOLEAN :
        dec' = [dec EXCEPT ![d].pc = "mark_approved",
                   ![d].action_executed =
                       (dec[d].approval.action_type = "process_refund" /\ success),
                   ![d].result = ApprovedResult(dec[d].result, dec[d].approval)]
    /\ UNCHANGED <<tickets, events, checkpoints, approvals, queue, dlq, now, wk, api,
                   crashes, ckptLog, scenario, failures, deliveries, consumer>>

\* The tool raises: the handler logs it and answers without touching the ticket.
DecideExecuteRaise(d) ==
    /\ dec[d].pc = "execute"
    /\ dec[d].approval.action_type = "process_refund"
    /\ toolExec' = [toolExec EXCEPT ![dec[d].approval_id] = @ + 1]
    /\ dec' = [dec EXCEPT ![d].pc = "done", ![d].response = "200 execution failed"]
    /\ UNCHANGED <<tickets, events, checkpoints, approvals, queue, dlq, now, wk, api,
                   crashes, ckptLog, scenario, failures, deliveries, consumer>>

\* mark_completed inside the try: a version mismatch is caught like a tool failure.
DecideMarkApproved(d) ==
    /\ dec[d].pc = "mark_approved"
    /\ LET id == dec[d].approval.ticket_id IN
        IF UpdateMatches(id, dec[d].version)
        THEN /\ tickets' = UpdateTicket(id, CompletedData(dec[d].result))
             /\ dec' = [dec EXCEPT ![d].pc = "log_approved"]
        ELSE /\ dec' = [dec EXCEPT ![d].pc = "done", ![d].response = "200 execution failed"]
             /\ UNCHANGED tickets
    /\ UNCHANGED <<events, checkpoints, approvals, queue, dlq, now, wk, api,
                   crashes, toolExec, ckptLog, scenario, failures, deliveries, consumer>>

\* mark_completed outside any try: a version mismatch ends the request in a 500.
DecideMarkRejected(d) ==
    /\ dec[d].pc = "mark_rejected"
    /\ LET id == dec[d].approval.ticket_id
           result == RejectedResult(dec[d].result, dec[d].reason) IN
        IF UpdateMatches(id, dec[d].version)
        THEN /\ tickets' = UpdateTicket(id, CompletedData(result))
             /\ dec' = [dec EXCEPT ![d].pc = "log_rejected", ![d].result = result]
        ELSE /\ dec' = [dec EXCEPT ![d].pc = "done", ![d].response = "500"]
             /\ UNCHANGED tickets
    /\ UNCHANGED <<events, checkpoints, approvals, queue, dlq, now, wk, api,
                   crashes, toolExec, ckptLog, scenario, failures, deliveries, consumer>>

\* log_status_change(AWAITING_APPROVAL, COMPLETED), then the 200 response.
DecideLogCompleted(d) ==
    /\ dec[d].pc \in {"log_approved", "log_rejected"}
    /\ events' = AppendEvent(dec[d].approval.ticket_id,
                             StatusChangeEvent(AWAITING_APPROVAL, COMPLETED))
    /\ dec' = [dec EXCEPT ![d].pc = "done",
                  ![d].response = IF dec[d].approved THEN "200 approved" ELSE "200 rejected"]
    /\ UNCHANGED <<tickets, checkpoints, approvals, queue, dlq, now, wk, api,
                   crashes, toolExec, ckptLog, scenario, failures, deliveries, consumer>>

\* ------------------------------------------------------------ specification
Ingest(c) ==
    \/ PostTicket(c) \/ IngestInsert(c) \/ IngestEvent(c) \/ IngestPublish(c)

Worker(w) ==
    \/ Deliver(w) \/ Load(w) \/ LoadRaise(w) \/ Acquire(w) \/ LogProcessing(w) \/ LoadCheckpoint(w)
    \/ SaveCheckpoint(w) \/ StepRaise(w) \/ LogStepComplete(w) \/ Heartbeat(w)
    \/ Reload(w) \/ CreateApproval(w) \/ MarkAwaitingApproval(w) \/ LogAwaitingApproval(w)
    \/ MarkCompleted(w) \/ LogCompleted(w) \/ CleanupCheckpoint(w)
    \/ LogError(w) \/ ReloadFailed(w) \/ MarkFailedPermanent(w) \/ LogFailedPermanent(w)
    \/ IncrementAttemptRead(w) \/ IncrementAttemptWrite(w) \/ LogRetry(w)
    \/ Republish(w) \/ Ack(w) \/ NackDeadLetter(w) \/ NackRequeue(w)

Approval(d) ==
    \/ DecideRequest(d) \/ DecideCas(d) \/ DecideLog(d) \/ DecideGetTicket(d)
    \/ DecideExecute(d) \/ DecideExecuteRaise(d) \/ DecideMarkApproved(d)
    \/ DecideMarkRejected(d) \/ DecideLogCompleted(d)

Next ==
    \/ \E c \in scenario.clients : Ingest(c)
    \/ \E w \in scenario.workers : Worker(w)
    \/ \E w \in scenario.workers : Crash(w)
    \/ \E d \in scenario.deciders : Approval(d)
    \/ Tick

Spec == Init /\ [][Next]_vars

\* One worker that dies between the insert of the approval row and the ticket
\* update, the envelope redelivered after the lease went stale, and two
\* approvers.
ScenarioRedelivery ==
    [use_agent |-> TRUE, workers |-> {"worker-1"}, clients |-> {"c1"}, deciders |-> Deciders,
     payloads |-> {RefundRequest}, crashes |-> MaxCrashes, crash_at |-> {"mark_awaiting"},
     store_fails |-> FALSE,
     ticks |-> MaxTicks, tool_calls |-> 0, failures |-> 0,
     deliveries |-> MaxDeliveries - 2]
InitRedelivery == InitStore /\ InitHandlers /\ scenario = ScenarioRedelivery
SpecRedelivery == InitRedelivery /\ [][Next]_vars

\* The pipeline alone (ingest, broker, workers, clock): one ticket, two
\* consumers of which one may die while it holds the lease (between
\* acquire_for_processing and the final update), and a workflow that may fail
\* on every attempt.
ScenarioPipeline ==
    [use_agent |-> TRUE, workers |-> Workers, clients |-> {"c1"}, deciders |-> {},
     payloads |-> {RefundRequest}, crashes |-> MaxCrashes,
     crash_at |-> {"log_processing", "load_checkpoint", "step", "log_step", "heartbeat",
                   "create_approval", "mark_awaiting", "mark_completed"},
     store_fails |-> FALSE,
     ticks |-> MaxTicks, tool_calls |-> 0, failures |-> max_retries,
     deliveries |-> MaxDeliveries + 1]
InitPipeline == InitStore /\ InitHandlers /\ scenario = ScenarioPipeline
NextPipeline ==
    \/ \E c \in scenario.clients : Ingest(c)
    \/ \E w \in scenario.workers : Worker(w)
    \/ \E w \in scenario.workers : Crash(w)
    \/ Tick
\* A request handler runs to its end; the broker hands a queued envelope to an
\* idle consumer (basic_consume), and a consumer that holds an envelope keeps
\* executing process_message.  Nothing obliges a process to die or the clock
\* to jump.
Fairness ==
    /\ \A c \in Clients : WF_vars(c \in scenario.clients /\ Ingest(c))
    /\ \A w \in Workers : WF_vars(w \in scenario.workers /\ Worker(w))
SpecFair == InitPipeline /\ [][NextPipeline]_vars /\ Fairness

\* One uninterrupted run of the agent graph with an LLM that keeps proposing
\* auto-approve tool calls.
ScenarioAgentLoop ==
    [use_agent |-> TRUE, workers |-> {"worker-1"}, clients |-> {"c1"}, deciders |-> {},
     payloads |-> {OrderQuestion}, crashes |-> 0, crash_at |-> {}, store_fails |-> FALSE,
     ticks |-> 0, tool_calls |-> MaxLoopToolCalls, failures |-> 0,
     deliveries |-> 1]
InitAgentLoop == InitStore /\ InitHandlers /\ scenario = ScenarioAgentLoop
NextAgentLoop ==
    \/ \E c \in scenario.clients : Ingest(c)
    \/ \E w \in scenario.workers : Worker(w)
SpecAgentLoop == InitAgentLoop /\ [][NextAgentLoop]_vars

\* ------------------------------------------------------------ Email ingest
\* The parsed emails that arrive on /webhooks/email/inbound/*: a first
\* message and a reply to it.
FirstEmail ==
    [message_id |-> "<m1@mail>", in_reply_to |-> NULL,
     from_email |-> "john@example.com", subject |-> "refund", body |-> "ord_12345"]
ReplyEmail ==
    [message_id |-> "<m2@mail>", in_reply_to |-> "<m1@mail>",
     from_email |-> "john@example.com", subject |-> "Re: refund", body |-> "any news?"]
Emails == {FirstEmail, ReplyEmail}

\* content = f"{message_id}:{from_email}:{subject}", under the email namespace.
generate_email_ticket_id(message_id, from_email, subject) ==
    "email:" \o message_id \o ":" \o from_email \o ":" \o subject
EmailTicketIds ==
    {generate_email_ticket_id(e.message_id, e.from_email, e.subject) : e \in Emails}

\* The row _create_ticket_from_email inserts: channel and metadata besides
\* the columns of an HTTP ticket.
NewEmailTicket(id, parsed) ==
    [id |-> id, customer_id |-> parsed.from_email, subject |-> parsed.subject,
     body |-> parsed.body,
     status |-> PENDING, result |-> None, worker_id |-> NULL, attempt_count |-> 0,
     version |-> 1, created_at |-> now, started_at |-> NoTime,
     completed_at |-> NoTime, last_heartbeat |-> NoTime,
     channel |-> "email",
     metadata |-> [message_id |-> parsed.message_id, from_email |-> parsed.from_email,
                   in_reply_to |-> parsed.in_reply_to]]

\* A lookup by thread that finds nothing.
FindTicketByThreadNothing(in_reply_to) == {}

\* _find_ticket_by_thread: the rows whose metadata contains
\* {"message_id": in_reply_to}; limit(1) takes any one of them.
FindTicketByThread(in_reply_to) ==
    {id \in DOMAIN tickets :
        /\ "metadata" \in DOMAIN tickets[id]
        /\ tickets[id].metadata.message_id = in_reply_to}

\* The status_change event of a thread reply.
ReplyEvent(parsed) ==
    Event(EV_STATUS_CHANGE, "email_reply_received",
          [message_id |-> parsed.message_id, from |-> parsed.from_email,
           subject |-> parsed.subject, body_preview |-> parsed.body])

\* An email arrives: if it is a reply, the thread is looked up.
ReceiveEmail(c) ==
    /\ api[c].pc = "idle"
    /\ \A b \in scenario.clients : Rank(b) < Rank(c) => api[b].pc # "idle"
    /\ \E parsed \in scenario.emails :
        LET found == IF parsed.in_reply_to # NULL
                     THEN FindTicketByThread(parsed.in_reply_to) ELSE {}
            answered == {b \in scenario.clients : api[b].pc = "done"} IN
        IF found # {}
        THEN \E t \in found :
                api' = [api EXCEPT ![c] =
                           [pc |-> "reply_event", request |-> parsed, ticket_id |-> t,
                            response |-> NULL, after |-> answered]]
        ELSE api' = [api EXCEPT ![c] =
                        [pc |-> "email_lookup", request |-> parsed,
                         ticket_id |-> generate_email_ticket_id(parsed.message_id,
                                           parsed.from_email, parsed.subject),
                         response |-> NULL, after |-> answered]]
    /\ UNCHANGED <<tickets, events, checkpoints, approvals, queue, dlq, now, wk, dec,
                   crashes, toolExec, ckptLog, scenario, failures, deliveries, consumer>>

\* The reply is appended to the existing ticket and the request is answered.
EmailReplyEvent(c) ==
    /\ api[c].pc = "reply_event"
    /\ events' = AppendEvent(api[c].ticket_id, ReplyEvent(api[c].request))
    /\ api' = [api EXCEPT ![c].pc = "done", ![c].response = api[c].ticket_id]
    /\ UNCHANGED <<tickets, checkpoints, approvals, queue, dlq, now, wk, dec,
                   crashes, toolExec, ckptLog, scenario, failures, deliveries, consumer>>

\* existing = ticket_repo.get_by_id(ticket_id): a duplicate email.
EmailLookup(c) ==
    /\ api[c].pc = "email_lookup"
    /\ api' = [api EXCEPT ![c] =
                  IF Existing(api[c].ticket_id)
                  THEN [@ EXCEPT !.pc = "done", !.response = api[c].ticket_id]
                  ELSE [@ EXCEPT !.pc = "email_insert"]]
    /\ UNCHANGED <<tickets, events, checkpoints, approvals, queue, dlq, now, wk, dec,
                   crashes, toolExec, ckptLog, scenario, failures, deliveries, consumer>>

\* client.table("tickets").insert(data): a primary-key conflict raises, and the
\* webhook answers 400.
EmailInsert(c) ==
    /\ api[c].pc = "email_insert"
    /\ LET id == api[c].ticket_id IN
        IF id \in DOMAIN tickets
        THEN /\ api' = [api EXCEPT ![c].pc = "done", ![c].response = "error_400"]
             /\ UNCHANGED tickets
        ELSE /\ tickets' = [k \in (DOMAIN tickets) \cup {id} |->
                               IF k = id THEN NewEmailTicket(id, api[c].request)
                               ELSE tickets[k]]
             /\ api' = [api EXCEPT ![c].pc = "email_event"]
    /\ UNCHANGED <<events, checkpoints, approvals, queue, dlq, now, wk, dec,
                   crashes, toolExec, ckptLog, scenario, failures, deliveries, consumer>>

EmailCreatedEvent(c) ==
    /\ api[c].pc = "email_event"
    /\ events' = AppendEvent(api[c].ticket_id,
                     Event(EV_CREATED, NULL,
                           [channel |-> "email", from |-> api[c].request.from_email,
                            subject |-> api[c].request.subject,
                            message_id |-> api[c].request.message_id]))
    /\ api' = [api EXCEPT ![c].pc = "email_publish"]
    /\ UNCHANGED <<tickets, checkpoints, approvals, queue, dlq, now, wk, dec,
                   crashes, toolExec, ckptLog, scenario, failures, deliveries, consumer>>

EmailPublish(c) ==
    /\ api[c].pc = "email_publish"
    /\ queue' = Publish(queue, api[c].ticket_id, 1)
    /\ api' = [api EXCEPT ![c].pc = "done", ![c].response = api[c].ticket_id]
    /\ UNCHANGED <<tickets, events, checkpoints, approvals, dlq, now, wk, dec,
                   crashes, toolExec, ckptLog, scenario, failures, deliveries, consumer>>

EmailIngest(c) ==
    \/ ReceiveEmail(c) \/ EmailReplyEvent(c) \/ EmailLookup(c) \/ EmailInsert(c)
    \/ EmailCreatedEvent(c) \/ EmailPublish(c)

\* Two webhooks, each receiving one email, and one worker.
ScenarioEmail ==
    [use_agent |-> TRUE, workers |-> {"worker-1"}, clients |-> Clients, deciders |-> {},
     payloads |-> {}, emails |-> Emails, crashes |-> 0, crash_at |-> {},
     store_fails |-> FALSE,
     ticks |-> 0, tool_calls |-> 0, failures |-> MaxFailures - 1,
     deliveries |-> MaxDeliveries]
InitEmail ==
    /\ tickets = [k \in {} |-> EmptyDict]
    /\ events = [k \in EmailTicketIds |-> EmptyBag]
    /\ checkpoints = [k \in {} |-> EmptyDict]
    /\ approvals = <<>>
    /\ queue = <<>>
    /\ dlq = <<>>
    /\ now = 0
    /\ toolExec = <<>>
    /\ ckptLog = [k \in EmailTicketIds |-> {}]
    /\ InitHandlers
    /\ scenario = ScenarioEmail
NextEmail ==
    \/ \E c \in scenario.clients : EmailIngest(c)
    \/ \E w \in scenario.workers : Worker(w)
SpecEmail == InitEmail /\ [][NextEmail]_vars

\* ----------------------------------------------------------- settlement
\* One worker on a queue that a foreign publisher left a malformed body in,
\* with an unreliable Store and LLM.
ScenarioSettlement ==
    [use_agent |-> TRUE, workers |-> {"worker-1"}, clients |-> {"c1"}, deciders |-> {},
     payloads |-> {RefundRequest}, crashes |-> 0, crash_at |-> {}, store_fails |-> TRUE,
     ticks |-> 0, tool_calls |-> 0, failures |-> MaxFailures + max_retries,
     deliveries |-> MaxDeliveries + 2 * max_retries]
InitSettlement ==
    /\ tickets = [k \in {} |-> EmptyDict]
    /\ events = [k \in TicketIds |-> EmptyBag]
    /\ checkpoints = [k \in {} |-> EmptyDict]
    /\ approvals = <<>>
    /\ queue = <<MalformedBody>>
    /\ dlq = <<>>
    /\ now = 0
    /\ toolExec = <<>>
    /\ ckptLog = [k \in TicketIds |-> {}]
    /\ InitHandlers
    /\ scenario = ScenarioSettlement
NextSettlement ==
    \/ \E c \in scenario.clients : Ingest(c)
    \/ \E w \in scenario.workers : Worker(w)
    \/ \E w \in scenario.workers : RejectMalformed(w)
SpecSettlement == InitSettlement /\ [][NextSettlement]_vars

\* -------------------------------------------------------------- shutdown
\* One worker that receives a shutdown signal at any moment while two tickets
\* are ingested.
ScenarioShutdown ==
    [use_agent |-> TRUE, workers |-> {"worker-1"}, clients |-> Clients, deciders |-> {},
     payloads |-> Payloads, crashes |-> 0, crash_at |-> {}, store_fails |-> FALSE,
     ticks |-> 0, tool_calls |-> 0, failures |-> 1, deliveries |-> MaxDeliveries]
InitShutdown == InitStore /\ InitHandlers /\ scenario = ScenarioShutdown
NextShutdown ==
    \/ \E c \in scenario.clients : Ingest(c)
    \/ \E w \in scenario.workers : Worker(w)
    \/ \E w \in scenario.workers : HandleShutdown(w)
    \/ \E w \in scenario.workers : PollTimeout(w)
SpecShutdown == InitShutdown /\ [][NextShutdown]_vars

\* ------------------------------------------------- TicketRepository.update
\* The TicketUpdate values passed to update: none of its fields set, one
\* field, two fields.
TicketUpdates ==
    {EmptyDict, [status |-> PROCESSING], [status |-> PENDING, attempt_count |-> 1]}
\* expected_version: None, or a version.
ExpectedVersions == {NoVersion} \cup (1..MaxVersion + 1)

\* The rows a ticket can be stored as: inserted, and then updated up to
\* MaxVersion - 1 times.
StoredRows(id) ==
    {[NewTicket(id, "cust_john_doe", "refund", "ord") EXCEPT !.status = st, !.version = v] :
        st \in {PENDING, PROCESSING}, v \in 1..MaxVersion}
StoredTables ==
    UNION {[ids -> UNION {StoredRows(id) : id \in ids}] : ids \in SUBSET TicketIds}

\* update() on a row absent or present: what it raises (NULL when it returns).
UpdateRaises(ticket_id, data, expected_version) ==
    IF DOMAIN data = {}
    THEN IF ticket_id \in DOMAIN tickets THEN NULL ELSE "TicketNotFoundError"
    ELSE IF UpdateMatches(ticket_id, expected_version) THEN NULL
    ELSE IF expected_version # NoVersion THEN "OptimisticLockError"
    ELSE "TicketNotFoundError"

\* A caller of the repository calls update(ticket_id, update, expected_version).
UpdateCall(c) ==
    /\ api[c].pc = "idle"
    /\ \A b \in scenario.clients : Rank(b) < Rank(c) => api[b].pc # "idle"
    /\ \E ticket_id \in TicketIds, data \in TicketUpdates, expected_version \in ExpectedVersions :
        LET raised == UpdateRaises(ticket_id, data, expected_version) IN
        /\ api' = [api EXCEPT ![c] =
                      [IdleClient EXCEPT !.pc = "done", !.ticket_id = ticket_id,
                          !.request = [data |-> data, expected_version |-> expected_version],
                          !.response = raised]]
        /\ tickets' = IF raised = NULL /\ DOMAIN data # {}
                       THEN UpdateTicket(ticket_id, data) ELSE tickets
    /\ UNCHANGED <<events, checkpoints, approvals, queue, dlq, now, wk, dec,
                   crashes, toolExec, ckptLog, scenario, failures, deliveries, consumer>>

\* Two callers of update, one call each, on a table of up to two tickets.
ScenarioUpdate ==
    [use_agent |-> TRUE, workers |-> {}, clients |-> Clients, deciders |-> {},
     payloads |-> {}, crashes |-> 0, crash_at |-> {}, store_fails |-> FALSE,
     ticks |-> 0, tool_calls |-> 0, failures |-> 0, deliveries |-> 0]
InitUpdate ==
    /\ now = 0
    /\ tickets \in StoredTables
    /\ events = [k \in TicketIds |-> EmptyBag]
    /\ checkpoints = [k \in {} |-> EmptyDict]
    /\ approvals = <<>>
    /\ queue = <<>>
    /\ dlq = <<>>
    /\ toolExec = <<>>
    /\ ckptLog = [k \in TicketIds |-> {}]
    /\ InitHandlers
    /\ scenario = ScenarioUpdate
NextUpdate == \E c \in scenario.clients : UpdateCall(c)
SpecUpdate == InitUpdate /\ [][NextUpdate]_vars

\* ------------------------------------------------------------------ Claims
TerminalStatuses == {COMPLETED, FAILED_PERMANENT}

\* C1 (terminal stickiness): once a ticket's status is completed or
\* failed_permanent, no step of a worker, of ingest or of the approval service
\* persists a different status for it.
C1_TerminalSticky ==
    [][\A id \in DOMAIN tickets :
          tickets[id].status \in TerminalStatuses
              => tickets'[id].status = tickets[id].status]_vars

AllowedTransitions ==
    {<<PENDING, PROCESSING>>, <<PROCESSING, COMPLETED>>, <<PROCESSING, AWAITING_APPROVAL>>,
     <<PROCESSING, PENDING>>, <<PROCESSING, FAILED_PERMANENT>>,
     <<AWAITING_APPROVAL, COMPLETED>>}

\* C10 (state machine): every persisted change of a ticket's status is one of
\* the six allowed transitions.
C10_StateMachine ==
    [][\A id \in DOMAIN tickets :
          tickets'[id].status # tickets[id].status
              => <<tickets[id].status, tickets'[id].status>> \in AllowedTransitions]_vars

\* C2 (at-most-one approval): in every reachable state every ticket has at
\* most one approval request with status pending.
C2_AtMostOnePending == \A id \in TicketIds : Cardinality(PendingApprovals(id)) <= 1

\* The decide calls made on an approval row, and those whose update matched.
Callers(a) == {d \in scenario.deciders : dec[d].pc # "idle" /\ dec[d].approval_id = a}
Recorded(a) ==
    {d \in Callers(a) : dec[d].pc # "decide" /\ dec[d].response \notin {"400", "409"}}
DecisionEvents(a) ==
    LET rows == events[approvals[a].ticket_id] IN
    {e \in DOMAIN rows : e.step_name = "approval_decision" /\ e.payload.approval_id = a}

\* C3 (approval atomicity): of the decide calls on an approval row, sequential
\* or concurrent, exactly one records the decision; the gated tool runs at most
\* once for the row; every other call is answered AlreadyDecided (400 when it
\* read the decided row, 409 when it lost the update) and neither runs the tool
\* nor appends a decision event.
C3_ApprovalAtomic ==
    \A a \in 1..Len(approvals) :
        /\ Cardinality(Recorded(a)) <= 1
        /\ (approvals[a].status # AP_PENDING) <=> (Recorded(a) # {})
        /\ toolExec[a] <= 1
        /\ toolExec[a] = 1 => \E d \in Recorded(a) : dec[d].approved
        /\ Cardinality(DecisionEvents(a)) <= 1
        /\ \A e \in DecisionEvents(a) :
              /\ events[approvals[a].ticket_id][e] = 1
              /\ \E d \in Recorded(a) : e.payload.approved = dec[d].approved
        /\ \A d \in Callers(a) \ Recorded(a) :
              dec[d].pc = "done" => dec[d].response \in {"400", "409"}

\* Two concurrent calls on one row: one approved and executed, the other lost
\* the update.
C3_Witness ==
    \E a \in 1..Len(approvals) : \E d, b \in Callers(a) :
        /\ dec[d].response = "200 approved" /\ toolExec[a] = 1
        /\ dec[b].response = "409"

\* A worker drives a ticket from its lease acquisition to the update that ends
\* the run (or to the exception that sends it to the error path).
DrivingSteps ==
    {"log_processing", "load_checkpoint", "step", "log_step", "heartbeat",
     "create_approval", "mark_awaiting", "mark_completed"}
Driving(w, id) == wk[w].pc \in DrivingSteps /\ wk[w].ticket_id = id
\* The step in which acquire_for_processing succeeds for w.
Acquires(w) == wk[w].pc = "acquire" /\ wk'[w].pc = "log_processing"

\* C4 (lease safety): an acquisition succeeds only on the version the worker
\* read and uses that version up, so two workers that read the same version
\* cannot both acquire; a ticket already in processing is acquired only when
\* its heartbeat is no longer fresh; and a worker acquires a ticket that
\* another worker is driving only when the heartbeat on the row has gone stale.
C4_LeaseSafety ==
    [][\A w \in Workers :
          Acquires(w) =>
              LET row == tickets[wk[w].ticket_id] IN
              /\ row.version = wk[w].version
              /\ tickets'[wk[w].ticket_id].version # row.version
              /\ row.status = PROCESSING => ~HeartbeatFresh(row)
              /\ \A v \in Workers \ {w} :
                    Driving(v, wk[w].ticket_id) => ~HeartbeatFresh(row)]_vars

\* The created events of a ticket, each counted as often as it is stored.
CreatedEvents(id) ==
    LET rows == events[id]
        created == {e \in DOMAIN rows : e.event_type = EV_CREATED} IN
    BagCardinality([e \in created |-> rows[e]])

\* C5 (idempotent ingestion): a POST /tickets that arrives after an answered
\* POST of the same payload is answered 201 with the same ticket_id, the id of
\* the payload, and the store then holds the ticket of that id with exactly
\* one created event.
C5_IdempotentIngestion ==
    \A c \in scenario.clients : \A b \in api[c].after :
        (api[c].pc = "done" /\ api[b].request = api[c].request) =>
            LET p == api[c].request
                id == generate_ticket_id(p.customer_id, p.subject, p.body) IN
            /\ api[c].response = id
            /\ api[b].response = id
            /\ id \in DOMAIN tickets /\ tickets[id].id = id
            /\ CreatedEvents(id) = 1

\* The same payload was POSTed twice, one request after the other's answer.
C5_Witness ==
    \E c \in scenario.clients : \E b \in api[c].after :
        /\ api[c].pc = "done" /\ api[b].request = api[c].request
        /\ api[c].response = api[b].response

\* The envelopes on which the processing of a ticket has failed, as the error
\* path records them before it chooses between retry and permanent failure.
FailedOnLastAttempt(id) ==
    \E w \in scenario.workers :
        /\ wk[w].ticket_id = id /\ wk[w].attempt >= max_retries
        /\ wk[w].pc \in {"ack", "nack_dlx", "nack_requeue"} /\ wk[w].error # NULL

\* C6 (retry bound): every ticket has attempt_count <= max_retries + 1, and a
\* ticket whose processing has failed on an envelope with attempt >=
\* max_retries is in failed_permanent when the handler settles that envelope.
C6_RetryBound ==
    \A id \in DOMAIN tickets :
        /\ tickets[id].attempt_count <= max_retries + 1
        /\ FailedOnLastAttempt(id) => tickets[id].status = FAILED_PERMANENT

StepCompleteEvents(id) == {e \in DOMAIN events[id] : e.event_type = EV_STEP_COMPLETE}

\* C8 (checkpoint discipline): a step_complete event for a step S of a ticket
\* is stored only when a checkpoint recording S has been upserted for the
\* ticket, and a worker that has run step S has that checkpoint written before
\* it logs S, heartbeats and begins the next step.
C8_CheckpointDiscipline ==
    /\ \A id \in TicketIds : \A e \in StepCompleteEvents(id) : e.step_name \in ckptLog[id]
    /\ \A w \in scenario.workers :
          wk[w].pc \in {"log_step", "heartbeat", "step"} /\ wk[w].step # NULL
              => wk[w].step \in ckptLog[wk[w].ticket_id]

\* Both steps of an agent run were logged, and the second is about to be
\* followed by the end of the stream.
C8_Witness ==
    \E id \in TicketIds : \E w \in scenario.workers :
        /\ {e.step_name : e \in StepCompleteEvents(id)} = {"agent", "finalize"}
        /\ wk[w].pc = "step" /\ wk[w].step = "finalize" /\ wk[w].ticket_id = id

\* C9 (event append-only): no step of ingest, of a worker or of the approval
\* service deletes or modifies a stored ticket event: every event of a ticket
\* is stored at least as often after the step as before it.
C9_EventsAppendOnly ==
    [][\A id \in TicketIds : events[id] \sqsubseteq events'[id]]_vars

\* A ticket whose log holds events of ingest, of a worker and of a decision.
C9_Witness ==
    \E id \in TicketIds :
        /\ CreatedEvents(id) = 1
        /\ StepCompleteEvents(id) # {}
        /\ \E e \in DOMAIN events[id] : e.step_name = "approval_decision"

\* The stored rows of a ticket's event log among `rows`, each counted as
\* often as it is stored.
CountRows(id, rows) == BagCardinality([e \in rows |-> events[id][e]])
RetryEvents(id) == {e \in DOMAIN events[id] : e.event_type = EV_RETRY}
ErrorEvents(id) == {e \in DOMAIN events[id] : e.event_type = EV_ERROR}
\* The status_change events that record a lease acquisition.
AcquireEvents(id) ==
    {e \in DOMAIN events[id] :
        /\ e.event_type = EV_STATUS_CHANGE /\ e.step_name = NULL
        /\ e.payload.new_status = PROCESSING}
\* Every run of the workflow for the ticket has failed in its first step: no
\* step completed, and every acquisition ended in a workflow error.
EveryRunFailed(id) ==
    /\ StepCompleteEvents(id) = {}
    /\ \A e \in ErrorEvents(id) : e.payload.error = "workflow_error"
    /\ CountRows(id, ErrorEvents(id)) = CountRows(id, AcquireEvents(id))

\* C11 (retry exhaustion): with no worker death, a ticket all of whose
\* workflow runs failed and that is in failed_permanent has result.error
\* populated, was acquired at most max_retries + 1 times, and has exactly
\* max_retries retry events in its log.
C11_RetryExhaustion ==
    \A id \in DOMAIN tickets :
        (crashes = 0 /\ tickets[id].status = FAILED_PERMANENT /\ EveryRunFailed(id)) =>
            /\ ~IsNone(tickets[id].result)
            /\ DictGet(tickets[id].result[1], "error", NULL) # NULL
            /\ CountRows(id, AcquireEvents(id)) <= max_retries + 1
            /\ CountRows(id, RetryEvents(id)) = max_retries

\* What the code does in that case: it gives up on the envelope whose attempt
\* equals max_retries, after max_retries acquisitions and max_retries - 1
\* retry events.
C11_CodeBehaviour ==
    \A id \in DOMAIN tickets :
        (crashes = 0 /\ tickets[id].status = FAILED_PERMANENT /\ EveryRunFailed(id)) =>
            /\ ~IsNone(tickets[id].result)
            /\ DictGet(tickets[id].result[1], "error", NULL) # NULL
            /\ CountRows(id, AcquireEvents(id)) = max_retries
            /\ CountRows(id, RetryEvents(id)) = max_retries - 1

\* The step_complete events of a ticket for step s.
StepCompleteOf(id, s) == {e \in StepCompleteEvents(id) : e.step_name = s}
\* The steps a run of the graph executes once: every node of the legacy
\* chain; in the agent graph the two nodes that lead to END (agent and tools
\* form a loop).
OncePerRunSteps ==
    IF use_agent THEN {"finalize", "await_approval"}
    ELSE {LegacySteps[i] : i \in 1..Len(LegacySteps)}

\* C12 (resume without duplicates): when no workflow step has failed, so that
\* a ticket is run again only because its worker died and the lease went
\* stale, the log of a ticket holds at most one step_complete event for each
\* step that a run executes once.
C12_ResumeNoDuplicates ==
    failures = 0 =>
        \A id \in TicketIds : \A s \in OncePerRunSteps :
            CountRows(id, StepCompleteOf(id, s)) <= 1

\* The decide calls that found the row pending and the ticket in
\* awaiting_approval, recorded their decision and have answered.
DecidedAwaiting(d) ==
    /\ dec[d].pc = "done" /\ dec[d].seen_status = AWAITING_APPROVAL
    /\ dec[d].response \notin {"400", "409"}
\* The result stored on the ticket of the row that d decided.
DecidedResult(d) ==
    LET row == tickets[dec[d].approval.ticket_id] IN
    IF IsNone(row.result) THEN EmptyDict ELSE row.result[1]

\* C13 (approved outcome): after decide(approved=true) on a pending approval
\* of a ticket in awaiting_approval, the gated tool having succeeded, the
\* ticket is completed, result.actions_taken is the value the handler read
\* with {tool, args, approved: true} appended, result.pending_approval is
\* cleared, and a status_change event carrying the decision is in the log.
C13_ApprovedOutcome ==
    \A d \in scenario.deciders :
        (DecidedAwaiting(d) /\ dec[d].approved /\ dec[d].action_executed) =>
            /\ tickets[dec[d].approval.ticket_id].status = COMPLETED
            /\ DictGet(DecidedResult(d), "actions_taken", <<>>)
                   = DictGet(dec[d].prior, "actions_taken", <<>>)
                       \o <<[tool |-> dec[d].approval.action_type,
                             args |-> dec[d].approval.action_params, approved |-> TRUE]>>
            /\ DictGet(DecidedResult(d), "pending_approval", NULL) = None
            /\ \E e \in DecisionEvents(dec[d].approval_id) : e.payload.approved

\* C15 (rejected outcome): after decide(approved=false, reason=R) on a pending
\* approval of a ticket in awaiting_approval, the ticket is completed,
\* result.final_response ends with R, result.pending_approval is cleared, the
\* gated tool has not run for the row, and result.actions_taken is the value
\* the handler read.
C15_RejectedOutcome ==
    \A d \in scenario.deciders :
        (DecidedAwaiting(d) /\ ~dec[d].approved /\ dec[d].reason # NULL) =>
            /\ tickets[dec[d].approval.ticket_id].status = COMPLETED
            /\ DictGet(DecidedResult(d), "final_response", NULL)
                   = "not approved. Reason: " \o dec[d].reason
            /\ DictGet(DecidedResult(d), "pending_approval", NULL) = None
            /\ toolExec[dec[d].approval_id] = 0
            /\ DictGet(DecidedResult(d), "actions_taken", <<>>)
                   = DictGet(dec[d].prior, "actions_taken", <<>>)

\* A handler is between the update that completed ticket id and the end of
\* its operation.
Completing(id) ==
    \/ \E w \in scenario.workers :
          wk[w].ticket_id = id /\ wk[w].pc \in {"log_completed", "delete_checkpoint"}
    \/ \E d \in scenario.deciders :
          dec[d].pc \in {"log_approved", "log_rejected"} /\ dec[d].approval.ticket_id = id

\* C14 (checkpoint cleanup): when no worker has died, so that every operation
\* that completed a ticket runs to its end, a ticket that is completed, with
\* the operation that completed it (the worker's completion or an approval
\* decision) finished, has no workflow checkpoint.
C14_CheckpointCleanup ==
    \A id \in DOMAIN tickets :
        (crashes = 0 /\ tickets[id].status = COMPLETED /\ ~Completing(id))
            => id \notin DOMAIN checkpoints

\* C16 (tool failure after approval): after an approved decision on a pending
\* approval of a ticket in awaiting_approval whose gated tool failed (it
\* raised, or reported success = false), the approval row is approved, the
\* ticket is completed and its result records the failure as an error.
C16_ToolFailure ==
    \A d \in scenario.deciders :
        (DecidedAwaiting(d) /\ dec[d].approved /\ ~dec[d].action_executed) =>
            /\ approvals[dec[d].approval_id].status = AP_APPROVED
            /\ tickets[dec[d].approval.ticket_id].status = COMPLETED
            /\ DictGet(DecidedResult(d), "error", NULL) # NULL

\* The step in which a decide call is answered without having recorded a
\* decision: it read a row that was no longer pending, or its update matched
\* no row.
AnsweredUndecided(d) ==
    /\ dec[d].pc \in {"idle", "decide"} /\ dec'[d].pc = "done"

\* C17 (AlreadyDecided): a decide call on an approval that is no longer
\* pending, whether it reads the decided row or loses the update to a
\* concurrent call, is answered 409 and changes neither the approval rows nor
\* the tickets nor the event log.
C17_AlreadyDecided ==
    [][\A d \in Deciders :
          AnsweredUndecided(d) =>
              /\ dec'[d].response = "409"
              /\ UNCHANGED <<approvals, tickets, events>>]_vars

\* The actions a tools step recorded (those the approval service appends
\* carry the flag approved).
ToolStepActions(actions_taken) ==
    {actions_taken[i].tool : i \in {j \in 1..Len(actions_taken) :
                                      "approved" \notin DOMAIN actions_taken[j]}}
\* The states of the agent graph held anywhere: by a running worker, in a
\* checkpoint, and the results stored on tickets.
AgentStates ==
    {wk[w].state : w \in {v \in scenario.workers : wk[v].pc \in {"step", "log_step", "heartbeat"}}}
        \cup {checkpoints[id].state : id \in DOMAIN checkpoints}
        \cup {tickets[id].result[1] : id \in {k \in DOMAIN tickets : ~IsNone(tickets[k].result)}}
\* The agent step of worker w has just produced a response that proposes a
\* tool requiring approval.
ProposedGated(w) ==
    /\ wk[w].pc \in {"log_step", "heartbeat", "step"} /\ wk[w].step = "agent"
    /\ ~IsNone(FirstGated(LastMessage(wk[w].state).tool_calls))

\* C20 (approval gating): in the agent workflow no tools step ever records a
\* tool that requires approval; a run whose agent step proposed such a tool
\* goes to await_approval and from there to the end of the graph; and the
\* gated tool has run for an approval row only if the row is approved.
C20_ApprovalGating ==
    use_agent =>
        /\ \A st \in AgentStates :
              \A t \in ToolStepActions(DictGet(st, "actions_taken", <<>>)) :
                  ~requires_approval(t)
        /\ \A w \in scenario.workers :
              /\ ProposedGated(w) => wk[w].node = "await_approval"
              /\ (wk[w].pc \in {"log_step", "heartbeat", "step"}
                      /\ wk[w].step = "await_approval") => wk[w].node = "END"
              /\ (wk[w].pc \in {"log_step", "heartbeat"} /\ wk[w].step = "tools")
                      => IsNone(wk[w].state["pending_approval"])
        /\ \A a \in 1..Len(approvals) : toolExec[a] > 0 => approvals[a].status = AP_APPROVED

\* The LLM proposed an auto-approve tool and the refund in one response; the
\* run went through await_approval to the end of the graph, the refund is
\* pending and no tool has been recorded.
C20_Witness ==
    \E w \in scenario.workers :
        /\ use_agent /\ wk[w].pc = "log_step"
        /\ wk[w].step = "await_approval" /\ wk[w].node = "END"
        /\ \E i \in 1..Len(wk[w].state["messages"]) :
              /\ wk[w].state["messages"][i].type = "AIMessage"
              /\ Len(wk[w].state["messages"][i].tool_calls) = 2
        /\ wk[w].state["actions_taken"] = <<>>
        /\ ~IsNone(wk[w].state["pending_approval"])
        /\ wk[w].state["pending_approval"][1].tool = "process_refund"

\* An envelope of ticket id is in the main queue or in a consumer's hands.
InFlight(id) ==
    \/ \E i \in 1..Len(queue) : queue[i].ticket_id = id
    \/ \E w \in scenario.workers : wk[w].pc # "idle" /\ wk[w].ticket_id = id
Settled(id) ==
    id \in DOMAIN tickets
        /\ tickets[id].status \in {COMPLETED, FAILED_PERMANENT, AWAITING_APPROVAL}
\* The lease on id is held, its holder has died and the heartbeat is older
\* than the staleness threshold.
StaleLease(id) ==
    /\ id \in DOMAIN tickets /\ tickets[id].status = PROCESSING
    /\ crashes > 0
    /\ \A w \in scenario.workers : ~(wk[w].ticket_id = id /\ wk[w].pc \in DrivingSteps)
    /\ ~HeartbeatFresh(tickets[id])

\* C18 (stale-lease reclaim): under fair delivery, a ticket left in processing
\* by a worker that died, whose heartbeat is older than the staleness
\* threshold, eventually reaches completed, failed_permanent or
\* awaiting_approval.
C18_StaleLeaseReclaim ==
    \A id \in TicketIds : StaleLease(id) ~> Settled(id)

\* C18, what the code does: once the threshold has elapsed a ticket in
\* processing whose holder died is either settled later or has no envelope
\* left outside the dead-letter queue (it was rejected there while the lease
\* was fresh).
C18_CodeBehaviour ==
    \A id \in TicketIds :
        StaleLease(id) ~> (Settled(id) \/ (~InFlight(id) /\ \E i \in 1..Len(dlq) : dlq[i].ticket_id = id))

\* C19 (eventual processing): in a behaviour where no worker dies, under fair
\* delivery, a ticket whose envelope ingest has published eventually reaches
\* completed, failed_permanent or awaiting_approval, whatever nodes raise.
C19_EventualProcessing ==
    \A id \in TicketIds :
        (crashes = 0 /\ InFlight(id)) ~> (Settled(id) \/ crashes > 0)

\* No worker died, the workflow raised on every attempt and the ticket ended
\* failed_permanent with its last envelope acknowledged.
C19_Witness ==
    \E id \in DOMAIN tickets :
        /\ crashes = 0 /\ failures = max_retries
        /\ tickets[id].status = FAILED_PERMANENT
        /\ ~InFlight(id) /\ dlq = <<>>

\* The agent iterations of the run worker w is in: the responses of the LLM in
\* the message history.
AgentIterations(w) ==
    Cardinality({i \in 1..Len(wk[w].state["messages"]) :
                    wk[w].state["messages"][i].type = "AIMessage"})
InRun(w) == wk[w].pc \in {"step", "log_step", "heartbeat"}

\* C21 (bounded agent loop): a run of the agent graph never makes more than 8
\* agent iterations, and a run whose 8 iterations all ended in tool calls is
\* finalized with the fallback response.
C21_BoundedAgentLoop ==
    \A w \in scenario.workers :
        (use_agent /\ InRun(w)) =>
            /\ AgentIterations(w) <= 8
            /\ (AgentIterations(w) = 8 /\ wk[w].step = "agent"
                    /\ LastMessage(wk[w].state).tool_calls # <<>>
                    /\ IsNone(wk[w].state["pending_approval"]))
                   => wk[w].node = "finalize"

\* C21, what the code does: the graph leaves the agent/tools loop only when
\* the LLM answers without a tool call or proposes a gated tool.
C21_CodeBehaviour ==
    \A w \in scenario.workers :
        (use_agent /\ InRun(w) /\ wk[w].step = "agent"
             /\ LastMessage(wk[w].state).tool_calls # <<>>
             /\ IsNone(wk[w].state["pending_approval"]))
            => wk[w].node = "tools"

\* Two requests with the same payload have both been answered.
SamePayloadAnswered(b, c) ==
    /\ b # c /\ api[b].pc = "done" /\ api[c].pc = "done"
    /\ api[b].request = api[c].request
\* The envelopes of ticket id in the main queue.
Queued(id) == Cardinality({i \in 1..Len(queue) : queue[i].ticket_id = id})

\* C22 (concurrent duplicate ingestion): when two POST /tickets with the same
\* payload have been answered, however they interleaved, both responses carry
\* the ticket_id of the payload, one created event exists and (before any
\* delivery) one envelope of the ticket is queued.
C22_ConcurrentDuplicate ==
    \A b, c \in scenario.clients :
        SamePayloadAnswered(b, c) =>
            LET p == api[c].request
                id == generate_ticket_id(p.customer_id, p.subject, p.body) IN
            /\ api[b].response = id /\ api[c].response = id
            /\ CreatedEvents(id) = 1
            /\ deliveries = 0 => Queued(id) = 1

\* C22, what the code does: one created event and one envelope, and the
\* request that loses the insert is answered with an error.
C22_CodeBehaviour ==
    \A b, c \in scenario.clients :
        SamePayloadAnswered(b, c) =>
            LET p == api[c].request
                id == generate_ticket_id(p.customer_id, p.subject, p.body) IN
            /\ {api[b].response, api[c].response} \in {{id}, {id, "error_500"}}
            /\ CreatedEvents(id) = 1
            /\ deliveries = 0 => Queued(id) = 1

\* The tickets whose metadata holds message_id.
ThreadOf(message_id) ==
    {id \in DOMAIN tickets :
        "metadata" \in DOMAIN tickets[id] /\ tickets[id].metadata.message_id = message_id}
\* The email request of client c has just arrived.
Arrives(c) == api[c].pc = "idle" /\ api'[c].pc # "idle"

\* C23 (email thread reply): an email whose in_reply_to matches the
\* message_id of a ticket in the Store is handled as a reply to such a
\* ticket; the handler inserts no ticket and publishes no envelope, appends
\* exactly one status_change event to that ticket and leaves every ticket row
\* (status, version, result) unchanged.
C23_ThreadReply ==
    [][\A c \in Clients :
        /\ (Arrives(c) /\ api'[c].request.in_reply_to # NULL
                /\ ThreadOf(api'[c].request.in_reply_to) # {})
              => /\ api'[c].pc = "reply_event"
                 /\ api'[c].ticket_id \in ThreadOf(api'[c].request.in_reply_to)
                 /\ UNCHANGED <<tickets, events, queue, dlq>>
        /\ (api[c].pc = "reply_event" /\ api'[c].pc # "reply_event")
              => LET id == api[c].ticket_id IN
                 /\ UNCHANGED <<tickets, queue, dlq>>
                 /\ api'[c].pc = "done" /\ api'[c].response = id
                 /\ \E e \in BagToSet(events'[id]) :
                       /\ e.event_type = EV_STATUS_CHANGE
                       /\ events' = [events EXCEPT ![id] = @ (+) SetToBag({e})]
       ]_vars

\* A reply was appended to a ticket that a worker has in processing.
C23_Witness ==
    \E c \in scenario.clients :
        /\ api[c].pc = "done" /\ api[c].request = ReplyEmail
        /\ api[c].response \in DOMAIN tickets
        /\ tickets[api[c].response].metadata.message_id = ReplyEmail.in_reply_to
        /\ tickets[api[c].response].status = PROCESSING
        /\ DOMAIN tickets = {api[c].response}
        /\ \E e \in BagToSet(events[api[c].response]) : e.step_name = "email_reply_received"

\* The step_complete events of ticket id form the first n steps of the legacy
\* chain, each once.
LegacyPrefix(id, n) ==
    \A i \in 1..Len(LegacySteps) :
        CountRows(id, StepCompleteOf(id, LegacySteps[i])) = (IF i <= n THEN 1 ELSE 0)

\* C24 (legacy pipeline order): in a run of the legacy workflow with no
\* failure and no worker death the step_complete events of the ticket are at
\* every moment a prefix of classify, extract, research, draft, review,
\* finalize, each step once, and the whole chain once the ticket is completed.
C24_LegacyOrder ==
    \A id \in DOMAIN tickets :
        (~use_agent /\ crashes = 0 /\ failures = 0) =>
            /\ \E n \in 0..Len(LegacySteps) : LegacyPrefix(id, n)
            /\ tickets[id].status = COMPLETED => LegacyPrefix(id, Len(LegacySteps))

\* A legacy run completed the ticket with no failure and no death.
C24_Witness ==
    \E id \in DOMAIN tickets :
        /\ ~use_agent /\ crashes = 0 /\ failures = 0
        /\ tickets[id].status = COMPLETED
        /\ LegacyPrefix(id, Len(LegacySteps))

\* C25 (result presence): a ticket carries a result if and only if its status
\* is completed, failed_permanent or awaiting_approval.
C25_ResultPresence ==
    \A id \in DOMAIN tickets :
        ~IsNone(tickets[id].result)
            <=> tickets[id].status \in {COMPLETED, FAILED_PERMANENT, AWAITING_APPROVAL}

\* Worker w is inside process() on ticket id under a lease that another worker,
\* still inside process(), has taken over since.
Superseded(w, id) ==
    /\ wk[w].ticket_id = id /\ wk[w].lease > 0
    /\ \E v \in scenario.workers \ {w} : wk[v].ticket_id = id /\ wk[v].lease > wk[w].lease

\* C26 (lease-holder serialization): a worker whose lease on a ticket has been
\* taken over by another worker commits no change to the ticket's status,
\* result or attempt_count.
C26_LeaseHolderSerialization ==
    [][\A w \in Workers : \A id \in DOMAIN tickets :
          (Superseded(w, id) /\ wk'[w] # wk[w]) =>
              /\ tickets'[id].status = tickets[id].status
              /\ tickets'[id].result = tickets[id].result
              /\ tickets'[id].attempt_count = tickets[id].attempt_count]_vars

\* C27 (awaiting_approval is quasi-terminal for workers): a ticket in
\* awaiting_approval keeps that status in every step except a step of the
\* approval service, which moves it to completed.
C27_AwaitingQuasiTerminal ==
    [][\A id \in DOMAIN tickets :
          (tickets[id].status = AWAITING_APPROVAL
               /\ tickets'[id].status # AWAITING_APPROVAL)
              => (tickets'[id].status = COMPLETED /\ dec' # dec /\ wk' = wk)]_vars

\* Worker w, holding an envelope, reads the ticket at the start of process().
Loads(w) ==
    /\ wk[w].pc = "load" /\ wk'[w].pc # "load"
    /\ crashes' = crashes /\ failures' = failures
\* Worker w settles its envelope with an ack.
Acks(w) == wk[w].pc = "ack" /\ wk'[w].pc = "idle" /\ crashes' = crashes

\* The gate itself: a worker that reads a ticket in completed,
\* failed_permanent or awaiting_approval at the start of process() goes
\* straight to the ack, and neither that step nor the ack changes a ticket,
\* an event, a checkpoint or an approval row or publishes an envelope.
GateFrame(w) ==
    /\ (Loads(w) /\ Settled(wk[w].ticket_id))
          => /\ wk'[w].pc = "ack"
             /\ UNCHANGED <<tickets, events, checkpoints, approvals, queue, dlq>>
    /\ Acks(w) => UNCHANGED <<tickets, events, checkpoints, approvals, queue, dlq>>
\* Where workers die only between publish and ack, an envelope whose attempt
\* the ticket's attempt_count has reached is the duplicate of an envelope
\* whose retry was already published.
DuplicateEnvelope(w) ==
    /\ scenario.crash_at = {"ack"}
    /\ wk[w].ticket_id \in DOMAIN tickets
    /\ tickets[wk[w].ticket_id].attempt_count >= wk[w].attempt

\* C28 (idempotency gate): a worker that receives an envelope of a ticket in
\* completed, failed_permanent or awaiting_approval acks it and changes
\* nothing in the Store or the Broker; and the duplicate envelope left by a
\* death between publishing attempt+1 and the ack is absorbed: the worker
\* that receives it does not acquire the ticket.
C28_IdempotencyGate ==
    [][\A w \in Workers :
          /\ GateFrame(w)
          /\ (Acquires(w) \/ (Loads(w) /\ wk'[w].pc = "acquire")) => ~DuplicateEnvelope(w)
      ]_vars

\* C28, what the code does: the gate acts as stated on a ticket that is
\* settled when the envelope arrives.
C28_CodeBehaviour == [][\A w \in Workers : GateFrame(w)]_vars

\* After a death between publishing attempt 2 and the ack, the third delivery
\* of the ticket found it completed: two acquisitions were logged, the worker
\* is at its ack and no envelope of the ticket is left anywhere.
C28_Witness ==
    \E w \in scenario.workers :
        /\ scenario = ScenarioLease /\ crashes = 1 /\ deliveries = 3
        /\ wk[w].pc = "ack" /\ Settled(wk[w].ticket_id)
        /\ tickets[wk[w].ticket_id].status = COMPLETED
        /\ CountRows(wk[w].ticket_id, AcquireEvents(wk[w].ticket_id)) = 2
        /\ queue = <<>> /\ dlq = <<>>
        /\ \A v \in scenario.workers \ {w} : wk[v].pc = "idle"

\* process() has returned False to process_message without entering its try
\* block: the ticket is held under a fresh lease or the lease CAS was lost.
OwnedReturn(w) == wk[w].pc \in {"publish", "nack_dlx"} /\ wk[w].error = NULL
\* Worker w reads a ticket in processing whose heartbeat is within the threshold.
LoadsOwned(w) ==
    /\ Loads(w) /\ wk[w].ticket_id \in DOMAIN tickets
    /\ tickets[wk[w].ticket_id].status = PROCESSING
    /\ HeartbeatFresh(tickets[wk[w].ticket_id])
\* Worker w loses the lease CAS.
LosesLease(w) ==
    /\ wk[w].pc = "acquire" /\ wk'[w] # wk[w] /\ crashes' = crashes
    /\ ~UpdateMatches(wk[w].ticket_id, wk[w].version)
\* The envelopes of ticket id, of any attempt.
Envelopes(id) == {Envelope(id, attempt) : attempt \in 1..(max_retries + 1)}
\* Worker w settles the envelope it was refused the ticket for.
Rejects(w) == OwnedReturn(w) /\ wk'[w] # wk[w] /\ crashes' = crashes

\* C29 (owned-ticket requeue): a worker that finds the ticket in processing
\* under a fresh heartbeat, or loses the lease CAS, changes nothing in the
\* Store, and its next step puts an envelope of the ticket back in the main
\* queue and none in the dead-letter queue, whatever the envelope's attempt.
C29_OwnedRequeue ==
    [][\A w \in Workers :
          /\ (LoadsOwned(w) \/ LosesLease(w))
                => /\ OwnedReturn(w)'
                   /\ UNCHANGED <<tickets, events, checkpoints, approvals, queue, dlq>>
          /\ Rejects(w)
                => /\ UNCHANGED <<tickets, events, checkpoints, approvals, dlq>>
                   /\ \E e \in Envelopes(wk[w].ticket_id) : queue' \in {Append(queue, e), <<e>> \o queue}
      ]_vars

\* C29, what the code does: below max_retries the refused envelope is replaced
\* by one of attempt + 1; at max_retries it is dead-lettered.
C29_CodeBehaviour ==
    [][\A w \in Workers :
          /\ (LoadsOwned(w) \/ LosesLease(w))
                => /\ OwnedReturn(w)'
                   /\ UNCHANGED <<tickets, events, checkpoints, approvals, queue, dlq>>
          /\ Rejects(w)
                => /\ UNCHANGED <<tickets, events, checkpoints, approvals>>
                   /\ IF wk[w].attempt < max_retries
                      THEN /\ queue' = Append(queue, Envelope(wk[w].ticket_id, wk[w].attempt + 1))
                           /\ dlq' = dlq
                      ELSE /\ dlq' = Append(dlq, Envelope(wk[w].ticket_id, wk[w].attempt))
                           /\ queue' = queue
      ]_vars

\* Worker w takes a step of the except branch of process(), or of what
\* process_message does after it, for an envelope below max_retries.
RetryStep(w, from, to) ==
    /\ wk[w].pc = from /\ wk'[w].pc = to /\ crashes' = crashes
    /\ wk[w].error # NULL /\ wk[w].attempt < max_retries

\* The steps of worker w from the raise to the ack, where `before` is the
\* attempt_count the write of increment_attempt is measured against.
RetrySteps(w, before) ==
    LET id == wk[w].ticket_id IN
     /\ RetryStep(w, "log_error", "increment_read")
           => /\ events' = AppendEvent(id, ErrorEvent(wk[w].error))
              /\ UNCHANGED <<tickets, checkpoints, approvals, queue, dlq>>
     /\ RetryStep(w, "increment_read", "increment_write")
           => UNCHANGED <<tickets, events, checkpoints, approvals, queue, dlq>>
     /\ RetryStep(w, "increment_write", "log_retry")
           => /\ tickets'[id].status = PENDING
              /\ tickets'[id].attempt_count = before + 1
              /\ \A other \in DOMAIN tickets \ {id} : tickets'[other] = tickets[other]
              /\ UNCHANGED <<events, checkpoints, approvals, queue, dlq>>
     /\ RetryStep(w, "log_retry", "publish")
           => /\ events' = AppendEvent(id, RetryEvent(wk[w].attempt, wk[w].error))
              /\ UNCHANGED <<tickets, checkpoints, approvals, queue, dlq>>
     /\ RetryStep(w, "publish", "ack")
           => /\ queue' = Append(queue, Envelope(id, wk[w].attempt + 1))
              /\ UNCHANGED <<tickets, events, checkpoints, approvals, dlq>>
     /\ RetryStep(w, "ack", "idle")
           => UNCHANGED <<tickets, events, checkpoints, approvals, queue, dlq>>
     /\ (wk[w].error # NULL /\ wk[w].attempt < max_retries /\ wk'[w] # wk[w]
               /\ crashes' = crashes /\ wk[w].pc \notin {"nack_requeue", "nack_dlx"})
           => <<wk[w].pc, wk'[w].pc>> \in
                 {<<"log_error", "increment_read">>, <<"increment_read", "increment_write">>,
                  <<"increment_write", "log_retry">>, <<"log_retry", "publish">>,
                  <<"publish", "ack">>, <<"ack", "idle">>}

\* C30 (retry step): after the workflow raised on an envelope with attempt <
\* max_retries the worker appends one error event, sets the ticket to pending
\* with attempt_count one higher than it was, appends one retry event,
\* publishes one envelope with attempt + 1 and acks its own; each of these
\* steps changes nothing else.
C30_RetryStep ==
    [][\A w \in Workers :
          RetrySteps(w, tickets[wk[w].ticket_id].attempt_count)]_vars

\* C30, what the code does: the write of increment_attempt stores one more
\* than the attempt_count its own read returned, whatever the row holds by then.
C30_CodeBehaviour ==
    [][\A w \in Workers : RetrySteps(w, wk[w].attempt_count)]_vars

\* Worker w is about to commit the final transition of its run.
Commits(w) ==
    /\ wk[w].pc \in {"mark_completed", "mark_awaiting"}
    /\ wk'[w] # wk[w] /\ crashes' = crashes
\* Every write of the row since w acquired it was a heartbeat of w.
OnlyWriter(w) ==
    /\ wk[w].ticket_id \in DOMAIN tickets /\ wk[w].lease > 0
    /\ tickets[wk[w].ticket_id].version = wk[w].lease + wk[w].beats

\* C31 (no phantom conflict from heartbeats): a worker that holds the lease and
\* whose heartbeats were the only writes of the row since it acquired it
\* commits completed or awaiting_approval without a version conflict.
C31_NoPhantomConflict ==
    [][\A w \in Workers :
          (Commits(w) /\ OnlyWriter(w)) =>
              LET id == wk[w].ticket_id IN
              /\ wk'[w].pc = IF wk[w].pc = "mark_completed" THEN "log_completed" ELSE "log_awaiting"
              /\ tickets'[id].status =
                    IF wk[w].pc = "mark_completed" THEN COMPLETED ELSE AWAITING_APPROVAL
              /\ tickets'[id].version = wk[w].lease + wk[w].beats + 1
      ]_vars

\* A worker has committed completed after at least three heartbeats of its own,
\* each of which bumped the version of the row.
C31_Witness ==
    \E w \in scenario.workers :
        /\ wk[w].pc = "log_completed" /\ wk[w].beats >= 3
        /\ tickets[wk[w].ticket_id].status = COMPLETED
        /\ tickets[wk[w].ticket_id].version = wk[w].lease + wk[w].beats + 1

\* Decider d issues the completion update of decide_approval.
CompletionUpdate(d) ==
    /\ dec[d].pc \in {"mark_approved", "mark_rejected"} /\ dec'[d] # dec[d]

\* C32 (decision survives a ticket version conflict): when the handler of a
\* decision issues its completion update on a ticket that is in
\* awaiting_approval, the ticket is completed by it, whether or not the
\* version the handler read is still the ticket's version.
C32_DecisionSurvivesConflict ==
    [][\A d \in Deciders :
          LET id == dec[d].approval.ticket_id IN
          (CompletionUpdate(d) /\ tickets[id].status = AWAITING_APPROVAL)
              => tickets'[id].status = COMPLETED]_vars

\* C32, what the code does: the update is issued once; on a version mismatch
\* the ticket is left as it was and the request ends (200 with a failure
\* message for an approval, 500 for a rejection).
C32_CodeBehaviour ==
    [][\A d \in Deciders :
          LET id == dec[d].approval.ticket_id IN
          CompletionUpdate(d) =>
              IF tickets[id].version = dec[d].version
              THEN tickets'[id].status = COMPLETED
              ELSE /\ tickets' = tickets
                   /\ dec'[d].pc = "done"
                   /\ dec'[d].response = IF dec[d].approved THEN "200 execution failed" ELSE "500"
      ]_vars

\* Worker w moves its ticket to awaiting_approval.
EntersAwaiting(w) ==
    /\ wk[w].pc = "mark_awaiting" /\ wk'[w].pc = "log_awaiting" /\ crashes' = crashes
\* The approval rows of ticket id that carry the proposed call, by status.
HandOffRows(id, pending, statuses) ==
    {a \in 1..Len(approvals) :
        /\ approvals[a].ticket_id = id /\ approvals[a].status \in statuses
        /\ approvals[a].action_type = pending.tool
        /\ approvals[a].action_params = pending.args}
\* What the worker does around the transition: one row is inserted for the
\* proposed call before it, the result is captured by it, and from there to
\* the ack the worker changes neither a checkpoint nor anything but its log.
HandOffSteps(w) ==
    LET id == wk[w].ticket_id IN
    /\ (wk[w].pc = "create_approval" /\ wk'[w] # wk[w] /\ crashes' = crashes)
          => /\ wk'[w].pc = "mark_awaiting"
             /\ Len(approvals') = Len(approvals) + 1
             /\ UNCHANGED <<tickets, checkpoints>>
    /\ EntersAwaiting(w)
          => /\ tickets'[id].status = AWAITING_APPROVAL
             /\ tickets'[id].result = Some(wk[w].result)
             /\ HandOffRows(id, wk[w].result["pending_approval"][1],
                             {AP_PENDING, AP_APPROVED, AP_REJECTED}) # {}
             /\ checkpoints' = checkpoints
    /\ (wk[w].pc = "log_awaiting" /\ wk'[w] # wk[w] /\ crashes' = crashes)
          => /\ wk'[w].pc = "ack"
             /\ UNCHANGED <<tickets, checkpoints, approvals, queue, dlq>>

\* C33 (approval hand-off): a run that ends with pending_approval set inserts
\* one approval row carrying the proposed tool and args, then moves the ticket
\* to awaiting_approval with the result captured, keeps the checkpoint and
\* acks; at the moment the ticket enters awaiting_approval a pending approval
\* for the proposed call and a checkpoint exist for it.
C33_ApprovalHandOff ==
    [][\A w \in Workers :
          /\ HandOffSteps(w)
          /\ EntersAwaiting(w)
                => /\ HandOffRows(wk[w].ticket_id, wk[w].result["pending_approval"][1],
                                   {AP_PENDING}) # {}
                   /\ wk[w].ticket_id \in DOMAIN checkpoints
      ]_vars

\* C33, what the code does: the worker's own steps are as stated; the row it
\* inserted exists at that moment, pending or already decided.
C33_CodeBehaviour == [][\A w \in Workers : HandOffSteps(w)]_vars

\* The envelopes in the main queue, in the dead-letter queue and in the hands
\* of a consumer.
EnvelopesInFlight ==
    {queue[i] : i \in 1..Len(queue)} \cup {dlq[i] : i \in 1..Len(dlq)}
        \cup {Envelope(wk[w].ticket_id, wk[w].attempt) :
                 w \in {v \in scenario.workers : wk[v].pc # "idle"}}

\* C34 (no dispatch without persistence): every envelope that is queued,
\* dead-lettered or in a consumer's hands names a ticket that exists in the
\* Store and whose created event has been logged.
C34_NoDispatchWithoutPersistence ==
    \A e \in EnvelopesInFlight :
        /\ e.ticket_id \in DOMAIN tickets
        /\ CreatedEvents(e.ticket_id) >= 1

\* An envelope of attempt 2, republished by a worker, is queued behind the
\* redelivered envelope of attempt 1 while no consumer holds one.
C34_Witness ==
    /\ Len(queue) = 2 /\ queue[1].attempt = 1 /\ queue[2].attempt = 2
    /\ queue[1].ticket_id = queue[2].ticket_id
    /\ queue[1].ticket_id \in DOMAIN tickets
    /\ tickets[queue[1].ticket_id].attempt_count = 1
    /\ \A w \in scenario.workers : wk[w].pc = "idle"

\* Caller c's call of update returns or raises in this step.
UpdateCalled(c) == api[c].pc = "idle" /\ api'[c].pc = "done" /\ scenario = ScenarioUpdate

\* C35 (update_ticket on a missing ticket): update for an id that has no row
\* raises TicketNotFoundError, with or without an expected version, and the
\* table is left as it was.
C35_UpdateMissing ==
    [][\A c \in Clients :
          (UpdateCalled(c) /\ api'[c].ticket_id \notin DOMAIN tickets)
              => /\ api'[c].response = "TicketNotFoundError"
                 /\ tickets' = tickets]_vars

\* C35, what the code does: with an expected version and at least one field
\* set the error is OptimisticLockError.
C35_CodeBehaviour ==
    [][\A c \in Clients :
          (UpdateCalled(c) /\ api'[c].ticket_id \notin DOMAIN tickets)
              => /\ api'[c].response =
                       IF api'[c].request.expected_version # NoVersion
                              /\ DOMAIN api'[c].request.data # {}
                       THEN "OptimisticLockError" ELSE "TicketNotFoundError"
                 /\ tickets' = tickets]_vars

\* The call names a stored row under a version that is not the row's.
StaleVersion(c) ==
    /\ api'[c].ticket_id \in DOMAIN tickets
    /\ api'[c].request.expected_version # NoVersion
    /\ api'[c].request.expected_version # tickets[api'[c].ticket_id].version

C36_CodeBehaviour ==
    [][\A c \in Clients :
          (UpdateCalled(c) /\ StaleVersion(c))
              => /\ api'[c].response =
                       IF DOMAIN api'[c].request.data # {} THEN "OptimisticLockError" ELSE NULL
                 /\ tickets' = tickets]_vars

\* An exception leaves process() in this step of worker w: the Store fails the
\* first read, or mark_failed_permanent in the error path loses its CAS.
Escapes(w) ==
    /\ wk'[w] # wk[w] /\ crashes' = crashes
    /\ \/ wk[w].pc = "load" /\ failures' = failures + 1
       \/ wk[w].pc = "mark_failed" /\ ~UpdateMatches(wk[w].ticket_id, wk[w].version)
\* Worker w settles its envelope by a nack.
Nacks(w) ==
    /\ wk[w].pc \in {"nack_requeue", "nack_dlx"} /\ wk'[w] # wk[w] /\ crashes' = crashes

\* C37 (unexpected exception outside the workflow): when an exception leaves
\* process() the handler nacks the envelope, with requeue if attempt <
\* max_retries and to the dead-letter queue otherwise, and does not ack it or
\* publish another; the nack changes nothing in the Store.
C37_EscapedException ==
    [][\A w \in Workers :
          LET e == Envelope(wk[w].ticket_id, wk[w].attempt) IN
          /\ Escapes(w)
                => /\ wk'[w].pc = IF wk[w].attempt < max_retries
                                  THEN "nack_requeue" ELSE "nack_dlx"
                   /\ UNCHANGED <<tickets, events, checkpoints, approvals, queue, dlq>>
          /\ Nacks(w)
                => /\ wk'[w].pc = "idle"
                   /\ IF wk[w].pc = "nack_requeue"
                      THEN wk[w].attempt < max_retries /\ queue' = <<e>> \o queue /\ dlq' = dlq
                      ELSE wk[w].attempt >= max_retries /\ dlq' = Append(dlq, e) /\ queue' = queue
                   /\ UNCHANGED <<tickets, events, checkpoints, approvals>>
      ]_vars

\* The Store failed the first read of process() for envelopes of attempt 1 and
\* of attempt 3: the first was requeued, the last is dead-lettered.
C37_Witness ==
    /\ scenario.store_fails /\ failures >= 2
    /\ Len(dlq) = 1 /\ dlq[1].attempt = max_retries
    /\ dlq[1].ticket_id \in DOMAIN tickets
    /\ tickets[dlq[1].ticket_id].status = PENDING
    /\ tickets[dlq[1].ticket_id].attempt_count = max_retries - 1
    /\ queue = <<>> /\ \A w \in scenario.workers : wk[w].pc = "idle"

\* The handler of worker w returns in this step.
HandlerReturns(w) == wk[w].pc # "idle" /\ wk'[w].pc = "idle" /\ crashes' = crashes
\* The handler of worker w takes a step and goes on.
HandlerContinues(w) == wk[w].pc # "idle" /\ wk'[w].pc # "idle" /\ wk'[w] # wk[w]
\* The broker hands a malformed body to a consumer.
MalformedDelivered ==
    /\ queue # <<>> /\ FromBytesRaises(Head(queue))
    /\ deliveries' = deliveries + 1

\* C38 (explicit settlement): the step in which the handler returns settles
\* the envelope by exactly one of ack (the envelope is gone), nack with
\* requeue (it is back at the head of the queue) and nack without requeue (it
\* is in the dead-letter queue); no earlier step of the handler settles it;
\* and a malformed body is dead-lettered in the step that delivers it, with no
\* handler left holding it.
C38_ExplicitSettlement ==
    [][/\ \A w \in Workers :
            LET e == Envelope(wk[w].ticket_id, wk[w].attempt) IN
            /\ HandlerReturns(w)
                  => \/ wk[w].pc = "ack" /\ queue' = queue /\ dlq' = dlq
                     \/ wk[w].pc = "nack_requeue" /\ queue' = <<e>> \o queue /\ dlq' = dlq
                     \/ wk[w].pc = "nack_dlx" /\ queue' = queue /\ dlq' = Append(dlq, e)
            /\ HandlerContinues(w)
                  => /\ dlq' = dlq
                     /\ \/ queue' = queue
                        \/ /\ wk[w].pc = "publish"
                           /\ queue' = Append(queue, Envelope(wk[w].ticket_id, wk[w].attempt + 1))
       /\ MalformedDelivered
            => /\ queue' = Tail(queue) /\ dlq' = Append(dlq, Head(queue))
               /\ wk' = wk
               /\ UNCHANGED <<tickets, events, checkpoints, approvals>>
      ]_vars

\* The malformed body is in the dead-letter queue, and the worker has since
\* acked the envelope of a ticket it settled and dead-lettered none.
C38_Witness ==
    /\ scenario = ScenarioSettlement
    /\ dlq = <<MalformedBody>> /\ queue = <<>>
    /\ \A w \in scenario.workers : wk[w].pc = "idle"
    /\ \E id \in DOMAIN tickets : Settled(id)
    /\ deliveries >= 2

\* C39 (graceful shutdown): once the shutdown signal has reached a worker, the
\* worker takes no further envelope from the broker and acks none: the
\* envelope it held when the signal arrived stays unacknowledged.
C39_GracefulShutdown ==
    [][\A w \in Workers :
          consumer[w].should_stop =>
              /\ ~(wk[w].pc = "idle" /\ wk'[w].pc # "idle")
              /\ ~(wk[w].pc = "ack" /\ wk'[w].pc = "idle")
      ]_vars

\* C39, what the code does: the signal only sets the flag. The handler that is
\* running goes on and settles its envelope as it would have; the loop ends
\* when process_data_events returns, after that handler or after a poll in
\* which at most one more envelope was dispatched; a consumer whose loop has
\* ended holds no envelope and takes none.
C39_CodeBehaviour ==
    [][\A w \in Workers :
          /\ (consumer[w].should_stop /\ HandlerReturns(w))
                => /\ wk[w].pc \in {"ack", "nack_requeue", "nack_dlx"}
                   /\ ~consumer'[w].consuming
          /\ (consumer[w].should_stop /\ ~consumer'[w].should_stop) => FALSE
          /\ ~consumer[w].consuming
                => wk[w].pc = "idle" /\ wk'[w] = wk[w] /\ queue' \in {queue, Append(queue,
                      Envelope(api["c1"].ticket_id, 1)), Append(queue, Envelope(api["c2"].ticket_id, 1))}
      ]_vars

\* C39, the in-flight case: a worker that was signalled while its handler ran
\* has reached basic_ack for that envelope.
C39_AckAfterSignal ==
    \E w \in Workers :
        consumer[w].should_stop /\ consumer[w].consuming /\ wk[w].pc = "ack"

\* The completion update of decider d rewrites the status or the result of
\* its approval's ticket.
DecisionRewrites(d) ==
    LET id == dec[d].approval.ticket_id IN
    /\ CompletionUpdate(d)
    /\ \/ tickets'[id].status # tickets[id].status
       \/ tickets'[id].result # tickets[id].result

\* C40 (decision touches only a suspended ticket): an approval decision
\* changes the status or the result of a ticket only if the ticket is in
\* awaiting_approval when the update is made.
C40_DecisionOnlySuspended ==
    [][\A d \in Deciders :
          DecisionRewrites(d)
              => tickets[dec[d].approval.ticket_id].status = AWAITING_APPROVAL]_vars

\* C40, what the code does: the update is conditioned on the version the
\* handler read and on nothing else; whatever status the ticket has, it is
\* rewritten to completed exactly when that version is still current.
C40_CodeBehaviour ==
    [][\A d \in Deciders :
          LET id == dec[d].approval.ticket_id IN
          CompletionUpdate(d) =>
              /\ DecisionRewrites(d) <=> tickets[id].version = dec[d].version
              /\ DecisionRewrites(d) =>
                    /\ tickets'[id].status = COMPLETED
                    /\ tickets'[id].version = tickets[id].version + 1
      ]_vars

====
